---- MODULE Spec2Model ----
(***************************************************************************)
(* A model of the PiliPili backend: the streaming engine of                *)
(* streamer/streamer.go (file-handle cache with reference counts, per-path *)
(* mutexes, content cache, the two sweepers, the range parser, the stream  *)
(* loop) and the signature service (Encrypt / Decrypt).                    *)
(*                                                                         *)
(* Sizes are scaled: the byte counts and the cache capacity of the source  *)
(* (2 MiB, 4 MiB, 256 KiB, 200 files, 10 min) are replaced by small        *)
(* numbers that keep their order relations.                                *)
(***************************************************************************)
EXTENDS Integers, Sequences, FiniteSets, TLC

\* ------------------------------------------------------------------ sizes

\* Request handlers that run in parallel (gin serves each request on its own
\* goroutine); a handler that returned serves the next request.
NStreams == 2
\* Paths of the storage; every path names an existing, unchanged file.
NPaths == 2
\* Requests that arrive in a run of the concurrent system.
MaxRequests == 3
\* Requests that arrive in a run of the sequential system.
SeqRequests == 3
\* The logical clock stops here (time.Now() is unbounded).
MaxTime == 1
\* Handles of one path that are in use at a time (os.Open fails beyond).
HandlesPerPath == 3

\* maxCachedFiles (200 in the source), scaled.
maxCachedFiles == 1
\* fileCacheEntryTTL (10 min in the source), in ticks of the logical clock.
fileCacheEntryTTL == 0
\* initialContentCacheSize (2 MiB in the source), in bytes, scaled.
initialContentCacheSize == 2
\* bufferSize of streamFile: 2 MiB when start = 0, 4 MiB otherwise; scaled.
smallBufferSize == 1
largeBufferSize == 2
\* flushChunkSize (256 KiB in the source), scaled.
flushChunkSize == 2

Streams == 1..NStreams
Paths == 1..NPaths
Free == 0
FileSweeper == NStreams + 1
ContentSweeper == NStreams + 2
NoPath == 0
NoMutex == 0
NoFile == 0
\* Mutex objects and OS handles are named per path: the k-th mutex made for
\* path p, the k-th handle opened on path p.
MutexesPerPath == 2 * NStreams + 2
MuIds == 1..(NPaths * MutexesPerPath)
MutexesOf(p) == ((p - 1) * MutexesPerPath + 1)..(p * MutexesPerPath)
Handles == 1..(NPaths * HandlesPerPath)
HandlesOf(p) == ((p - 1) * HandlesPerPath + 1)..(p * HandlesPerPath)

\* The files on disk: path 1 is longer than the cached prefix, the others are
\* empty. Byte i of path p is the number 10 * p + i.
FileSize(p) == IF p = 1 THEN 3 ELSE 0
FileByte(p, i) == 10 * p + i
FileBytes(p, lo, hi) == [k \in 1..(hi - lo + 1) |-> FileByte(p, lo + k - 1)]

Min(a, b) == IF a < b THEN a ELSE b
Max(a, b) == IF a > b THEN a ELSE b

\* ------------------------------------------------------------ range parser

\* A header value is a sequence of one-character strings; <<>> is the absent
\* (or empty) header: c.GetHeader returns "" for both.
DigitChars == <<"0", "1", "2", "3", "4", "5", "6", "7", "8", "9">>
IsDigit(c) == \E d \in 1..10 : DigitChars[d] = c
DigitVal(c) == (CHOOSE d \in 1..10 : DigitChars[d] = c) - 1

RECURSIVE DecimalValue(_)
DecimalValue(s) ==
    IF s = <<>> THEN 0
    ELSE 10 * DecimalValue(SubSeq(s, 1, Len(s) - 1)) + DigitVal(s[Len(s)])

\* strconv.ParseInt(s, 10, 64): an optional sign, then one or more decimal
\* digits; anything else is an error. (The values of the model stay far below
\* the 64-bit range, whose overflow is an error too.)
ParseInt(s) ==
    LET signed == s # <<>> /\ s[1] \in {"+", "-"}
        body == IF signed THEN Tail(s) ELSE s
    IN  IF body = <<>> \/ \E i \in 1..Len(body) : ~IsDigit(body[i])
        THEN [err |-> TRUE, val |-> 0]
        ELSE [err |-> FALSE,
              val |-> IF signed /\ s[1] = "-" THEN 0 - DecimalValue(body)
                      ELSE DecimalValue(body)]

\* strings.SplitN(s, sep, 2) for a one-character separator.
SplitN2(s, sep) ==
    IF \E i \in 1..Len(s) : s[i] = sep
    THEN LET i == CHOOSE j \in 1..Len(s) :
                      s[j] = sep /\ \A k \in 1..(j - 1) : s[k] # sep
         IN  <<SubSeq(s, 1, i - 1), SubSeq(s, i + 1, Len(s))>>
    ELSE <<s>>

FullRange(fileSize) == [panic |-> FALSE, start |-> 0, end |-> fileSize - 1]

\* The end of the window, from the text after the first "-": empty, it is the
\* last byte; one that does not parse or lies before start is adjusted to the
\* last byte as well.
RangeEndUnchecked(text, start, fileSize) ==
    IF text = <<>> THEN fileSize - 1 ELSE ParseInt(text).val
RangeEnd(text, start, fileSize) ==
    IF text = <<>> THEN fileSize - 1
    ELSE IF ParseInt(text).err \/ ParseInt(text).val < start THEN fileSize - 1
    ELSE ParseInt(text).val

\* parseRangeHeader. rangeParts[1] of the source is rangeParts[2] here; the
\* source indexes it without checking the length, which panics (index out of
\* range) when the spec holds no "-".
parseRangeHeader(rangeHeader, fileSize) ==
    IF rangeHeader = <<>> THEN FullRange(fileSize)
    ELSE LET ranges == SplitN2(rangeHeader, "=") IN
    IF Len(ranges) # 2 \/ ranges[1] # <<"b", "y", "t", "e", "s">>
    THEN FullRange(fileSize)
    ELSE LET rangeParts == SplitN2(ranges[2], "-")
             start == ParseInt(rangeParts[1])
         IN
    IF start.err \/ start.val < 0 THEN FullRange(fileSize)
    ELSE IF Len(rangeParts) < 2
    THEN [panic |-> TRUE, start |-> start.val, end |-> 0]
    ELSE LET end == RangeEnd(rangeParts[2], start.val, fileSize)
         IN  [panic |-> FALSE, start |-> start.val,
              end |-> IF end >= fileSize THEN fileSize - 1 ELSE end]

BytesEq == <<"b", "y", "t", "e", "s", "=">>
\* The Range headers the streams of the model send.
HeaderNone == <<>>
HeaderFrom1 == BytesEq \o <<"1", "-">>
HeaderBeyond == BytesEq \o <<"5", "-">>
HeaderHead == BytesEq \o <<"0", "-", "1">>
HeaderFirst == BytesEq \o <<"0", "-", "0">>
HeaderNoDash == BytesEq \o <<"1">>
HeaderWhole == BytesEq \o <<"0", "-">>
HeaderMulti == BytesEq \o <<"1", "-", "1", ",", "2", "-", "2">>
HeaderMultiFrom0 == BytesEq \o <<"0", "-", "0", ",", "2", "-", "2">>
HeaderSuffix == BytesEq \o <<"-", "2">>
HeaderOtherUnit == <<"l", "i", "n", "e", "s", "=", "1", "-">>
StreamHeaders ==
    {HeaderNone, HeaderFrom1, HeaderBeyond, HeaderHead, HeaderFirst, HeaderNoDash,
     HeaderWhole, HeaderMulti, HeaderMultiFrom0, HeaderSuffix, HeaderOtherUnit}

\* ------------------------------------------------- signature: the encodings

\* Byte strings are sequences of numbers 0..255; a Go string is one of them.

\* The concatenation of the sequences f[lo], ..., f[hi].
RECURSIVE Concat(_, _, _)
Concat(f, lo, hi) ==
    IF lo > hi THEN <<>>
    ELSE IF lo = hi THEN f[lo]
    ELSE Concat(f, lo, (lo + hi) \div 2) \o Concat(f, (lo + hi) \div 2 + 1, hi)

\* The alphabet of base64.StdEncoding and its padding character '='.
B64Char(i) ==
    IF i < 26 THEN 65 + i
    ELSE IF i < 52 THEN 97 + (i - 26)
    ELSE IF i < 62 THEN 48 + (i - 52)
    ELSE IF i = 62 THEN 43 ELSE 47
B64Pad == 61
IsB64Char(c) == \E i \in 0..63 : B64Char(i) = c
B64Index(c) == CHOOSE i \in 0..63 : B64Char(i) = c

\* base64.StdEncoding.EncodeToString: three bytes give four characters, the
\* last group is padded with '='.
EncodeToString(src) ==
    LET n == Len(src)
        byte(i) == IF i <= n THEN src[i] ELSE 0
    IN  [k \in 1..(4 * ((n + 2) \div 3)) |->
            LET g == (k - 1) \div 4
                j == (k - 1) % 4
                b1 == byte(3 * g + 1)
                b2 == byte(3 * g + 2)
                b3 == byte(3 * g + 3)
            IN  IF j = 0 THEN B64Char(b1 \div 4)
                ELSE IF j = 1 THEN B64Char((b1 % 4) * 16 + b2 \div 16)
                ELSE IF j = 2
                THEN IF 3 * g + 2 > n THEN B64Pad
                     ELSE B64Char((b2 % 16) * 4 + b3 \div 64)
                ELSE IF 3 * g + 3 > n THEN B64Pad ELSE B64Char(b3 % 64)]

\* The input of the decoder without '\r' and '\n', which it skips.
SkipNewlines(s) == SelectSeq(s, LAMBDA c : c \notin {10, 13})

\* One quantum of four characters is well formed: four characters of the
\* alphabet, or in the last quantum two or three of them and the padding.
QuantumOk(q, last) ==
    /\ IsB64Char(q[1]) /\ IsB64Char(q[2])
    /\ \/ IsB64Char(q[3]) /\ IsB64Char(q[4])
       \/ last /\ IsB64Char(q[3]) /\ q[4] = B64Pad
       \/ last /\ q[3] = B64Pad /\ q[4] = B64Pad

\* The bytes of one well-formed quantum. The bits of the last character
\* that belong to no byte are dropped unchecked (the encoding is not Strict).
QuantumBytes(q) ==
    LET v(i) == IF q[i] = B64Pad THEN 0 ELSE B64Index(q[i])
        b1 == v(1) * 4 + v(2) \div 16
        b2 == (v(2) % 16) * 16 + v(3) \div 4
        b3 == (v(3) % 4) * 64 + v(4)
    IN  IF q[3] = B64Pad THEN <<b1>>
        ELSE IF q[4] = B64Pad THEN <<b1, b2>>
        ELSE <<b1, b2, b3>>

\* base64.StdEncoding.DecodeString: [err, val].
DecodeString(s) ==
    LET t == SkipNewlines(s)
        quanta == Len(t) \div 4
        quantum(g) == SubSeq(t, 4 * g - 3, 4 * g)
    IN  IF Len(t) % 4 # 0 \/ \E g \in 1..quanta : ~QuantumOk(quantum(g), g = quanta)
        THEN [err |-> TRUE, val |-> <<>>]
        ELSE [err |-> FALSE,
              val |-> Concat([g \in 1..quanta |-> QuantumBytes(quantum(g))],
                             1, quanta)]

\* utf8.DecodeRune at position i of s: the length of the encoding of the
\* rune that starts there, or 0 when the bytes there encode none (RuneError
\* of width 1).
RuneLen(s, i) ==
    LET n == Len(s)
        b0 == s[i]
        cont(k) == k <= n /\ s[k] >= 128 /\ s[k] <= 191
        second(lo, hi) == i + 1 <= n /\ s[i + 1] >= lo /\ s[i + 1] <= hi
    IN  IF b0 < 128 THEN 1
        ELSE IF b0 >= 194 /\ b0 <= 223 THEN IF cont(i + 1) THEN 2 ELSE 0
        ELSE IF b0 = 224 THEN IF second(160, 191) /\ cont(i + 2) THEN 3 ELSE 0
        ELSE IF b0 = 237 THEN IF second(128, 159) /\ cont(i + 2) THEN 3 ELSE 0
        ELSE IF b0 >= 225 /\ b0 <= 239
             THEN IF cont(i + 1) /\ cont(i + 2) THEN 3 ELSE 0
        ELSE IF b0 = 240
             THEN IF second(144, 191) /\ cont(i + 2) /\ cont(i + 3) THEN 4 ELSE 0
        ELSE IF b0 >= 241 /\ b0 <= 243
             THEN IF cont(i + 1) /\ cont(i + 2) /\ cont(i + 3) THEN 4 ELSE 0
        ELSE IF b0 = 244
             THEN IF second(128, 143) /\ cont(i + 2) /\ cont(i + 3) THEN 4 ELSE 0
        ELSE 0

\* A continuation byte of UTF-8.
IsCont(c) == c >= 128 /\ c <= 191

\* Decoding s rune by rune from the left, a rune (or a byte that is none)
\* starts at position i: every byte that is no continuation byte starts
\* one, and so does a continuation byte that the rune of the nearest such
\* byte before it does not reach.
IsRuneStart(s, i) ==
    \/ ~IsCont(s[i])
    \/ ~\E j \in Max(1, i - 3)..(i - 1) :
            /\ ~IsCont(s[j])
            /\ \A k \in (j + 1)..(i - 1) : IsCont(s[k])
            /\ RuneLen(s, j) > i - j

\* utf8.ValidString
ValidString(s) == \A i \in 1..Len(s) : IsRuneStart(s, i) => RuneLen(s, i) # 0

\* The UTF-8 encoding of U+FFFD, which replaces what is no rune.
ReplacementChar == <<239, 191, 189>>

\* The digits of the \u escapes the encoder writes.
HexChar(d) == IF d < 10 THEN 48 + d ELSE 97 + (d - 10)
\* \u00XX
EscapeU00(b) == <<92, 117, 48, 48, HexChar(b \div 16), HexChar(b % 16)>>

\* One byte below 0x80 as json.Marshal writes it inside a string (with
\* HTML escaping, the default of Marshal).
EscapeByte(b) ==
    IF b = 34 \/ b = 92 THEN <<92, b>>
    ELSE IF b = 8 THEN <<92, 98>>
    ELSE IF b = 12 THEN <<92, 102>>
    ELSE IF b = 10 THEN <<92, 110>>
    ELSE IF b = 13 THEN <<92, 114>>
    ELSE IF b = 9 THEN <<92, 116>>
    ELSE IF b < 32 \/ b \in {60, 62, 38} THEN EscapeU00(b)
    ELSE <<b>>

\* The rune that starts at position i as json.Marshal writes it: a byte that
\* is no UTF-8 becomes \ufffd, U+2028 and U+2029 are escaped.
EscapeRune(s, i) ==
    LET n == RuneLen(s, i) IN
    IF n = 0 THEN <<92, 117, 102, 102, 102, 100>>
    ELSE IF n = 1 THEN EscapeByte(s[i])
    ELSE IF n = 3 /\ s[i] = 226 /\ s[i + 1] = 128 /\ s[i + 2] \in {168, 169}
    THEN <<92, 117, 50, 48, 50, HexChar(s[i + 2] - 160)>>
    ELSE SubSeq(s, i, i + n - 1)

\* json.Marshal of a string
MarshalString(s) ==
    <<34>> \o Concat([i \in 1..Len(s) |->
                        IF IsRuneStart(s, i) THEN EscapeRune(s, i) ELSE <<>>],
                     1, Len(s))
           \o <<34>>

\* json.Marshal of an int64: strconv.FormatInt(n, 10)
RECURSIVE FormatDigits(_)
FormatDigits(n) ==
    IF n < 10 THEN <<48 + n>>
    ELSE FormatDigits(n \div 10) \o <<48 + (n % 10)>>
FormatInt(n) == IF n < 0 THEN <<45>> \o FormatDigits(0 - n) ELSE FormatDigits(n)

\* ---------------------------------------------- signature: the JSON decoder

\* The value of four hexadecimal digits, or -1.
HexVal(c) ==
    IF c >= 48 /\ c <= 57 THEN c - 48
    ELSE IF c >= 97 /\ c <= 102 THEN c - 87
    ELSE IF c >= 65 /\ c <= 70 THEN c - 55
    ELSE 0 - 1
Hex4(b, i) ==
    IF i + 3 > Len(b) \/ \E k \in 0..3 : HexVal(b[i + k]) < 0 THEN 0 - 1
    ELSE 4096 * HexVal(b[i]) + 256 * HexVal(b[i + 1])
            + 16 * HexVal(b[i + 2]) + HexVal(b[i + 3])

\* utf8.AppendRune for a rune of the basic plane; a surrogate half is no
\* rune and becomes U+FFFD. (Surrogate pairs, which no token of the model
\* holds, are not combined.)
EncodeRune(r) ==
    IF r < 128 THEN <<r>>
    ELSE IF r < 2048 THEN <<192 + r \div 64, 128 + (r % 64)>>
    ELSE IF r >= 55296 /\ r <= 57343 THEN ReplacementChar
    ELSE <<224 + r \div 4096, 128 + ((r \div 64) % 64), 128 + (r % 64)>>

ScanError == [err |-> TRUE, kind |-> "none", val |-> <<>>, next |-> 0]

\* The character after a backslash, for the one-letter escapes.
Unescaped(c) ==
    IF c = 98 THEN 8 ELSE IF c = 102 THEN 12 ELSE IF c = 110 THEN 10
    ELSE IF c = 114 THEN 13 ELSE IF c = 116 THEN 9 ELSE c

\* In the string literal whose first character is at position i, the
\* character at k follows a backslash that escapes it: the backslashes just
\* before k are odd in number.
Escaped(b, i, k) ==
    /\ k > i
    /\ b[k - 1] = 92
    /\ LET j == CHOOSE m \in (i - 1)..(k - 1) :
                    /\ m = i - 1 \/ b[m] # 92
                    /\ \A l \in (m + 1)..(k - 1) : b[l] = 92
       IN  (k - 1 - j) % 2 = 1

\* What the character at k of that literal contributes to the string: [err,
\* val]. An escape is undone at its letter, the hexadecimal digits of a \u
\* and a backslash that escapes contribute nothing, bytes that are no UTF-8
\* become U+FFFD, a control character is a syntax error.
Unquoted(b, i, k, close) ==
    LET ok(v) == [err |-> FALSE, val |-> v]
        bad == [err |-> TRUE, val |-> <<>>]
    IN  IF Escaped(b, i, k)
        THEN IF b[k] \in {34, 92, 47, 98, 102, 110, 114, 116}
             THEN ok(<<Unescaped(b[k])>>)
             ELSE IF b[k] = 117 /\ k + 4 < close /\ Hex4(b, k + 1) >= 0
             THEN ok(EncodeRune(Hex4(b, k + 1)))
             ELSE bad
        ELSE IF \E j \in Max(i, k - 4)..(k - 1) : b[j] = 117 /\ Escaped(b, i, j)
        THEN ok(<<>>)
        ELSE IF b[k] = 92 THEN ok(<<>>)
        ELSE IF b[k] < 32 THEN bad
        ELSE IF ~IsRuneStart(b, k) THEN ok(<<>>)
        ELSE IF RuneLen(b, k) = 0 THEN ok(ReplacementChar)
        ELSE ok(SubSeq(b, k, k + RuneLen(b, k) - 1))

\* The string whose characters contributed `parts`, up to the quote at
\* `close`.
ScanJoin(parts, i, close) ==
    IF \E k \in i..(close - 1) : parts[k].err THEN ScanError
    ELSE [err |-> FALSE, kind |-> "string",
          val |-> Concat([k \in i..(close - 1) |-> parts[k].val], i, close - 1),
          next |-> close + 1]

\* The string literal that ends at the quote at `close`.
ScanUpTo(b, i, close) ==
    ScanJoin([k \in i..(close - 1) |-> Unquoted(b, i, k, close)], i, close)

\* The string literal that ends at the first of `quotes`.
ScanQuoted(b, i, quotes) ==
    IF quotes = {} THEN ScanError
    ELSE ScanUpTo(b, i, CHOOSE k \in quotes : \A q \in quotes : k <= q)

\* The decoder on a string literal, from the character after the opening
\* quote up to the first quote no backslash escapes.
ScanChars(b, i) ==
    ScanQuoted(b, i, {k \in i..Len(b) : b[k] = 34 /\ ~Escaped(b, i, k)})

\* The byte at position i, or -1 past the end.
At(b, i) == IF i >= 1 /\ i <= Len(b) THEN b[i] ELSE 0 - 1
IsDigitByte(c) == c >= 48 /\ c <= 57

RECURSIVE SkipSpace(_, _)
SkipSpace(b, i) ==
    IF At(b, i) \in {32, 9, 10, 13} THEN SkipSpace(b, i + 1) ELSE i

RECURSIVE DigitsEnd(_, _)
DigitsEnd(b, i) == IF IsDigitByte(At(b, i)) THEN DigitsEnd(b, i + 1) ELSE i

RECURSIVE DigitsValue(_)
DigitsValue(d) ==
    IF d = <<>> THEN 0
    ELSE 10 * DigitsValue(SubSeq(d, 1, Len(d) - 1)) + (d[Len(d)] - 48)

\* The decoder on a number: an optional '-', then 0 or a digit 1..9 and more
\* digits. val is the integer written. (A fraction or an exponent, which no
\* token of the model holds, is reported as an error.)
ScanNumber(b, i) ==
    LET first == IF At(b, i) = 45 THEN i + 1 ELSE i
        stop == DigitsEnd(b, first)
        digits == SubSeq(b, first, stop - 1)
    IN  IF stop = first
           \/ (At(b, first) = 48 /\ stop > first + 1)
           \/ At(b, stop) \in {46, 101, 69}
        THEN ScanError
        ELSE [err |-> FALSE, kind |-> "number",
              val |-> IF first > i THEN 0 - DigitsValue(digits)
                      ELSE DigitsValue(digits),
              next |-> stop]

\* The decoder on a value: a string, a number, null, true or false. (An
\* object or an array as a value, which no token of the model holds, is
\* reported as an error.)
ScanValue(b, i) ==
    IF At(b, i) = 34 THEN ScanChars(b, i + 1)
    ELSE IF At(b, i) = 45 \/ IsDigitByte(At(b, i)) THEN ScanNumber(b, i)
    ELSE IF i + 3 <= Len(b) /\ SubSeq(b, i, i + 3) = <<110, 117, 108, 108>>
    THEN [err |-> FALSE, kind |-> "null", val |-> <<>>, next |-> i + 4]
    ELSE IF i + 3 <= Len(b) /\ SubSeq(b, i, i + 3) = <<116, 114, 117, 101>>
    THEN [err |-> FALSE, kind |-> "bool", val |-> TRUE, next |-> i + 4]
    ELSE IF i + 4 <= Len(b) /\ SubSeq(b, i, i + 4) = <<102, 97, 108, 115, 101>>
    THEN [err |-> FALSE, kind |-> "bool", val |-> FALSE, next |-> i + 5]
    ELSE ScanError

ParseError == [err |-> TRUE, members |-> <<>>]

\* The members of an object, from the first character of a key: the key,
\* a colon, the value, then a comma and more members or the closing brace
\* and nothing but space.
RECURSIVE ParseMembers(_, _, _)
ParseAfterValue(b, m, more) ==
    IF At(b, m) = 44 THEN ParseMembers(b, SkipSpace(b, m + 1), more)
    ELSE IF At(b, m) = 125 /\ SkipSpace(b, m + 1) > Len(b)
    THEN [err |-> FALSE, members |-> more]
    ELSE ParseError
ParseValue(b, key, v, acc) ==
    IF v.err THEN ParseError
    ELSE ParseAfterValue(b, SkipSpace(b, v.next),
                         Append(acc, [key |-> key, kind |-> v.kind, val |-> v.val]))
ParseColon(b, key, j, acc) ==
    IF At(b, j) # 58 THEN ParseError
    ELSE ParseValue(b, key, ScanValue(b, SkipSpace(b, j + 1)), acc)
ParseKey(b, k, acc) ==
    IF k.err THEN ParseError
    ELSE ParseColon(b, k.val, SkipSpace(b, k.next), acc)
ParseMembers(b, i, acc) ==
    IF At(b, i) # 34 THEN ParseError
    ELSE ParseKey(b, ScanChars(b, i + 1), acc)

\* The decoder on a whole document that is an object: [err, members], the
\* members in the order of the text.
ParseObject(b) ==
    LET i == SkipSpace(b, 1) IN
    IF At(b, i) # 123 THEN ParseError
    ELSE LET j == SkipSpace(b, i + 1) IN
    IF At(b, j) = 125
    THEN IF SkipSpace(b, j + 1) > Len(b)
         THEN [err |-> FALSE, members |-> <<>>] ELSE ParseError
    ELSE ParseMembers(b, j, <<>>)

Absent == [kind |-> "absent", val |-> <<>>]

\* m[key] of the map the decoder filled: the last member of that key wins.
MapGet(members, key) ==
    IF \E n \in 1..Len(members) : members[n].key = key
    THEN LET n == CHOOSE k \in 1..Len(members) :
                     /\ members[k].key = key
                     /\ \A l \in (k + 1)..Len(members) : members[l].key # key
         IN  [kind |-> members[n].kind, val |-> members[n].val]
    ELSE Absent

\* json.Unmarshal into map[string]string: a value that is neither a string
\* nor null is an error; m[key] of a missing or null member is "".
StringsOnly(o) ==
    IF o.err \/ \E n \in 1..Len(o.members) : o.members[n].kind \notin {"string", "null"}
    THEN ParseError
    ELSE o
UnmarshalStrings(b) == StringsOnly(ParseObject(b))
StringOf(members, key) ==
    IF MapGet(members, key).kind = "string" THEN MapGet(members, key).val ELSE <<>>

\* ------------------------------------------- signature: Encrypt and Decrypt

\* The significand of a float64 has 53 bits, an int64 has 64; scaled.
float64Precision == 4
int64Bits == 6
\* len(key) of InitializeSignature (16 in the source), scaled.
keyLength == 2

RECURSIVE Pow2(_)
Pow2(n) == IF n = 0 THEN 1 ELSE 2 * Pow2(n - 1)

\* The float64 nearest to the integer v (ties to the even significand), as
\* strconv.ParseFloat returns it for the decimal text of v.
Float64(v) ==
    LET a == IF v < 0 THEN 0 - v ELSE v
        limit == Pow2(float64Precision)
    IN  IF a < limit THEN v
        ELSE LET e == CHOOSE k \in 1..int64Bits :
                          /\ a \div Pow2(k) < limit
                          /\ a \div Pow2(k - 1) >= limit
                 q == a \div Pow2(e)
                 r == a % Pow2(e)
                 half == Pow2(e - 1)
                 up == r > half \/ (r = half /\ q % 2 = 1)
                 m == (IF up THEN q + 1 ELSE q) * Pow2(e)
             IN  IF v < 0 THEN 0 - m ELSE m

\* The keys of the two JSON objects of a token.
KeyExpireAt == <<101, 120, 112, 105, 114, 101, 65, 116>>
KeyItemId == <<105, 116, 101, 109, 73, 100>>
KeyMediaId == <<109, 101, 100, 105, 97, 73, 100>>
KeyData == <<100, 97, 116, 97>>
KeySignature == <<115, 105, 103, 110, 97, 116, 117, 114, 101>>

\* json.Marshal(data) of Encrypt: the keys of a map are written sorted.
MarshalData(itemId, mediaId, expireAt) ==
    <<123>> \o MarshalString(KeyExpireAt) \o <<58>> \o FormatInt(expireAt)
      \o <<44>> \o MarshalString(KeyItemId) \o <<58>> \o MarshalString(itemId)
      \o <<44>> \o MarshalString(KeyMediaId) \o <<58>> \o MarshalString(mediaId)
      \o <<125>>

\* json.Marshal(payload) of Encrypt
MarshalPayload(data, signature) ==
    <<123>> \o MarshalString(KeyData) \o <<58>> \o MarshalString(data)
      \o <<44>> \o MarshalString(KeySignature) \o <<58>> \o MarshalString(signature)
      \o <<125>>

\* HMAC-SHA256 (crypto/hmac), idealised: a tag that no other key or message
\* has. It is the length of the message, the key and the message, padded
\* so that, like the 32 bytes of SHA-256, its length leaves 2 modulo 3.
HmacSha256(key, message) ==
    LET body == <<Len(message)>> \o key \o message
    IN  body \o [k \in 1..((2 + 2 * Len(body)) % 3) |-> 0]

\* Signature.Encrypt: the token for (itemId, mediaId, expireAt).
Encrypt(key, itemId, mediaId, expireAt) ==
    LET jsonData == MarshalData(itemId, mediaId, expireAt)
        signature == HmacSha256(key, jsonData)
        payloadJson == MarshalPayload(EncodeToString(jsonData),
                                      EncodeToString(signature))
    IN  EncodeToString(payloadJson)

DecryptError == [err |-> TRUE, data |-> <<>>]

\* json.Unmarshal into map[string]interface{}: a number becomes a float64.
NumbersAsFloat64(o) ==
    IF o.err THEN DecryptError
    ELSE [err |-> FALSE,
          data |-> [n \in 1..Len(o.members) |->
                      IF o.members[n].kind = "number"
                      THEN [o.members[n] EXCEPT !.val = Float64(@)]
                      ELSE o.members[n]]]
UnmarshalAny(b) == NumbersAsFloat64(ParseObject(b))

\* Signature.Decrypt after the two fields were decoded: the comparison of
\* the signatures (hmac.Equal) and the parse of the data.
DecryptVerify(key, jsonData, signature) ==
    IF jsonData.err \/ signature.err THEN DecryptError
    ELSE IF signature.val # HmacSha256(key, jsonData.val) THEN DecryptError
    ELSE UnmarshalAny(jsonData.val)

\* Signature.Decrypt after the payload was parsed: its two fields are
\* decoded.
DecryptPayload(key, payload) ==
    IF payload.err THEN DecryptError
    ELSE DecryptVerify(key, DecodeString(StringOf(payload.members, KeyData)),
                            DecodeString(StringOf(payload.members, KeySignature)))

\* Signature.Decrypt after the token was decoded: the payload is parsed.
DecryptDecoded(key, payloadJson) ==
    IF payloadJson.err THEN DecryptError
    ELSE DecryptPayload(key, UnmarshalStrings(payloadJson.val))

\* Signature.Decrypt: [err, data], data the members of the verified object.
Decrypt(key, ciphertext) == DecryptDecoded(key, DecodeString(ciphertext))

\* The inputs of the model: keys of the right and of a wrong length, ids
\* with plain, escaped, two-byte and broken (not UTF-8) characters, and
\* expiry times around the largest integer every float64 step reaches.
Keys == {<<107, 49>>, <<107, 50>>, <<107>>}
Ids == {<<97>>, <<34, 92>>, <<195, 169>>, <<97, 255>>}
ExpireAts ==
    {0 - (Pow2(float64Precision) + 1), 0, 1, Pow2(float64Precision),
     Pow2(float64Precision) + 1, Pow2(float64Precision) + 2}

\* -------------------------------------------------------------------- state

VARIABLES
    requests,      \* the requests that arrived so far
    now,           \* the clock, in ticks
    fileCache,     \* fileCache.cache: path -> [file, refCount, lastUsed]
    fcLock,        \* holder of the fileCache mutex, or Free
    contentCache,  \* contentCache.cache: path -> the preloaded head bytes
    ccLock,        \* holder of the contentCache mutex, or Free
    fileMu,        \* fileMu (sync.Map): path -> mutex
    muHolder,      \* per mutex object, its holder or Free
    hOpen,         \* per OS handle: opened and not yet closed
    hOff,          \* per OS handle: its current offset
    leaked,        \* some handle was dropped open: nothing can close it
    st,            \* per request handler: the locals of Stream and its callees
    fs,            \* the locals of the file sweeper goroutine
    cs,            \* the locals of the content sweeper goroutine
    sig,           \* the signature service and the token it last handled
    rq             \* the request Remote handled last and its response

vars == <<requests, now, fileCache, fcLock, contentCache, ccLock, fileMu, muHolder,
          hOpen, hOff, leaked, st, fs, cs, sig, rq>>

\* Go maps: delete(m, k) and m[k] = v.
MapDelete(m, k) == [q \in DOMAIN m \ {k} |-> m[q]]
MapPut(m, k, v) == [q \in DOMAIN m \cup {k} |-> IF q = k THEN v ELSE m[q]]
Range(m) == {m[q] : q \in DOMAIN m}

\* The headers of a response the model follows: Content-Length (-1 when not
\* set) and Content-Range, <<start, end, size>> for "bytes start-end/size",
\* <<size>> for "bytes */size", <<>> when not set.
NoHeaders == [contentLength |-> 0 - 1, contentRange |-> <<>>]

\* A handler between two requests. fileSize is -1 until file.Stat() returned;
\* parsed is what parseRangeHeader returned; hdr is the header map of the
\* response writer and sent the headers written to the client; hasBuffer
\* tells that streamFile holds a buffer of the pool.
IdleStream ==
    [pc |-> "idle", path |-> NoPath, header |-> <<>>, mutex |-> NoMutex,
     file |-> NoFile, isCached |-> FALSE,
     lruPath |-> NoPath, entryToEvict |-> NoFile, muToEvict |-> NoMutex,
     start |-> 0, end |-> 0, currentOffset |-> 0, bytesRemaining |-> 0,
     writtenBytes |-> 0, bufferSize |-> 0, buffer |-> <<>>,
     status |-> 0, committed |-> 0, out |-> <<>>, flushes |-> 0,
     decrements |-> 0, closes |-> 0,
     writeFailed |-> FALSE, readFailed |-> FALSE,
     fileSize |-> 0 - 1, parsed |-> [panic |-> FALSE, start |-> 0, end |-> 0],
     hdr |-> NoHeaders, sent |-> NoHeaders, hasBuffer |-> FALSE]

\* Objects nothing refers to any more are reclaimed (Go's garbage collector
\* for mutexes, the OS for closed descriptors), so their names are reused.
MutexRefs ==
    Range(fileMu) \cup {st[s].mutex : s \in Streams}
                  \cup {st[s].muToEvict : s \in Streams} \cup {fs.mutex}
FreeMutexes(p) == MutexesOf(p) \ MutexRefs
FreshMutex(p) == CHOOSE m \in FreeMutexes(p) : \A k \in FreeMutexes(p) : m <= k
HandleRefs ==
    {fileCache[q].file : q \in DOMAIN fileCache}
        \cup {st[s].file : s \in Streams}
        \cup {st[s].entryToEvict : s \in Streams}
\* A handle name is free when the handle is closed and nothing refers to it.
FreeHandles(p) == {h \in HandlesOf(p) : ~hOpen[h] /\ h \notin HandleRefs}
FreshHandle(p) == CHOOSE h \in FreeHandles(p) : \A k \in FreeHandles(p) : h <= k

\* file.Close(): the handle is closed (closing it twice returns an error that
\* the source logs).
CloseHandle(h) ==
    /\ hOpen' = [hOpen EXCEPT ![h] = FALSE]
    /\ hOff' = [hOff EXCEPT ![h] = 0]
    /\ UNCHANGED leaked

\* The last reference to handle h is dropped without a Close: if h is still
\* open it can never be closed. (The model notes the leak and reuses the
\* name.)
DropHandle(h) ==
    /\ hOpen' = [hOpen EXCEPT ![h] = FALSE]
    /\ hOff' = [hOff EXCEPT ![h] = 0]
    /\ leaked' = (leaked \/ hOpen[h])

\* os.Open(filePath) returning handle h, at offset 0.
OpenHandle(h) ==
    /\ hOpen' = [hOpen EXCEPT ![h] = TRUE]
    /\ hOff' = [hOff EXCEPT ![h] = 0]
    /\ UNCHANGED leaked

\* The signature service before InitializeSignature: signatureInstance is
\* nil, once has not run, no token was issued or verified.
IdleSig ==
    [pc |-> "idle", instance |-> <<>>, onceDone |-> FALSE, initError |-> FALSE,
     input |-> [itemId |-> <<>>, mediaId |-> <<>>, expireAt |-> 0],
     token |-> <<>>, output |-> [err |-> FALSE, data |-> <<>>]]

Init ==
    /\ requests = 0
    /\ now = 0
    /\ fileCache = <<>>
    /\ fcLock = Free
    /\ contentCache = <<>>
    /\ ccLock = Free
    /\ fileMu = <<>>
    /\ muHolder = [m \in MuIds |-> Free]
    /\ hOpen = [h \in Handles |-> FALSE]
    /\ hOff = [h \in Handles |-> 0]
    /\ leaked = FALSE
    /\ st = [s \in Streams |-> IdleStream]
    /\ fs = [pc |-> "sleep", paths |-> {}, path |-> NoPath, mutex |-> NoMutex]
    /\ cs = [pc |-> "sleep", todo |-> {}, cleanup |-> {}]
    /\ sig = IdleSig
    /\ rq = [pc |-> "idle", signedWith |-> <<>>, payload |-> <<>>, at |-> 0,
             instance |-> <<>>, writes |-> <<>>, ticket |-> 0]

\* time passes
Tick ==
    /\ now < MaxTime
    /\ now' = now + 1
    /\ UNCHANGED <<requests, fileCache, fcLock, contentCache, ccLock, fileMu,
                   muHolder, hOpen, hOff, leaked, st, fs, cs>>
    /\ UNCHANGED <<sig, rq>>

\* ---------------------------------------------------- Stream: the acquire

\* Stream, up to fileMu.LoadOrStore(absPath, &sync.Mutex{}): a request for
\* path p with Range header h arrives (one of at most `limit` requests).
StreamBeginWith(s, paths, headers, limit) ==
    /\ st[s].pc = "idle"
    /\ requests < limit
    /\ requests' = requests + 1
    /\ \E p \in paths, h \in headers :
         LET m == IF p \in DOMAIN fileMu THEN fileMu[p] ELSE FreshMutex(p) IN
         /\ fileMu' = MapPut(fileMu, p, m)
         /\ st' = [st EXCEPT ![s] = [IdleStream EXCEPT
                      !.pc = "lock", !.path = p, !.header = h, !.mutex = m]]
    /\ UNCHANGED <<now, fileCache, fcLock, contentCache, ccLock, muHolder,
                   hOpen, hOff, leaked, fs, cs>>
    /\ UNCHANGED <<sig, rq>>

\* mutex.Lock() of Stream
StreamLock(s) ==
    /\ st[s].pc = "lock"
    /\ muHolder[st[s].mutex] = Free
    /\ muHolder' = [muHolder EXCEPT ![st[s].mutex] = s]
    /\ st' = [st EXCEPT ![s].pc = "get"]
    /\ UNCHANGED <<requests, now, fileCache, fcLock, contentCache, ccLock, fileMu,
                   hOpen, hOff, leaked, fs, cs>>
    /\ UNCHANGED <<sig, rq>>

\* A hit that hands the handle out without counting the reference.
AcquireEntryUncounted(entry) == entry

\* entry.refCount++ of a hit (and of the open race)
AcquireEntry(entry) == [entry EXCEPT !.refCount = @ + 1]

\* A scan that takes any idle entry, whatever its lastUsed.
IdleCandidates(cache) == {q \in DOMAIN cache : cache[q].refCount = 0}

\* The scan of the capacity eviction: the entries with refCount = 0 whose
\* lastUsed no other such entry precedes. (Go iterates a map in random order
\* and keeps the first of equal times.)
LruCandidates(cache) ==
    {q \in DOMAIN cache :
        /\ cache[q].refCount = 0
        /\ \A r \in DOMAIN cache :
              cache[r].refCount = 0 => cache[q].lastUsed <= cache[r].lastUsed}

\* fileCache.Unlock() of a thread that goes on to load and lock the mutex of
\* a victim (the capacity eviction after it chose the victim, the file
\* sweeper after it collected the paths): the global lock is free.
KeepLockForVictim(holder) == holder
UnlockForVictim(holder) == Free

\* Where getFileFromCacheOrOpen goes on a miss at capacity with nothing to
\* evict: os.Open and "return file, false, nil", without the cache.
OpenAndCacheWhenFull == "open"
OpenDirectWhenFull == "open_direct"

\* getFileFromCacheOrOpen, its first critical section (fileCache.Lock() to
\* the Unlock on each branch): a hit, a miss below capacity, or at capacity
\* the choice of the victim. entry.file is never nil (openAndCacheFile stores
\* an opened file), so the nil branch is not modelled.
getFileFromCacheOrOpen(s) ==
    LET p == st[s].path IN
    /\ st[s].pc = "get"
    /\ fcLock = Free
    /\ IF p \in DOMAIN fileCache
       THEN /\ fileCache' = [fileCache EXCEPT ![p] = AcquireEntry(@)]
            /\ st' = [st EXCEPT ![s].pc = "stat",
                                ![s].file = fileCache[p].file,
                                ![s].isCached = TRUE]
       ELSE /\ UNCHANGED fileCache
            /\ IF Cardinality(DOMAIN fileCache) >= maxCachedFiles
               THEN IF LruCandidates(fileCache) # {}
                    THEN \E q \in LruCandidates(fileCache) :
                           st' = [st EXCEPT ![s].pc = "evict_load",
                                            ![s].lruPath = q,
                                            ![s].entryToEvict = fileCache[q].file]
                    ELSE st' = [st EXCEPT ![s].pc = OpenDirectWhenFull]
               ELSE st' = [st EXCEPT ![s].pc = "open"]
    /\ fcLock' = IF st'[s].pc = "evict_load" THEN UnlockForVictim(s) ELSE Free
    /\ UNCHANGED <<requests, now, contentCache, ccLock, fileMu, muHolder,
                   hOpen, hOff, leaked, fs, cs>>
    /\ UNCHANGED <<sig, rq>>

\* entry.refCount == 0 && time.Since(entry.lastUsed) > fileCacheEntryTTL
Evictable(entry, t) ==
    entry.refCount = 0 /\ t - entry.lastUsed > fileCacheEntryTTL

\* fileMu.Load(lruPath) of the capacity eviction
EvictLoadMutex(s) ==
    /\ st[s].pc = "evict_load"
    /\ IF st[s].lruPath \in DOMAIN fileMu
       THEN st' = [st EXCEPT ![s].pc = "evict_lock",
                             ![s].muToEvict = fileMu[st[s].lruPath]]
       ELSE st' = [st EXCEPT ![s].pc = "evict_nomutex"]
    /\ UNCHANGED <<requests, now, fileCache, fcLock, contentCache, ccLock, fileMu,
                   muHolder, hOpen, hOff, leaked, fs, cs>>
    /\ UNCHANGED <<sig, rq>>

\* mutexToEvict.Lock()
EvictLock(s) ==
    /\ st[s].pc = "evict_lock"
    /\ muHolder[st[s].muToEvict] = Free
    /\ muHolder' = [muHolder EXCEPT ![st[s].muToEvict] = s]
    /\ st' = [st EXCEPT ![s].pc = "evict_check"]
    /\ UNCHANGED <<requests, now, fileCache, fcLock, contentCache, ccLock, fileMu,
                   hOpen, hOff, leaked, fs, cs>>
    /\ UNCHANGED <<sig, rq>>

\* The re-check of the capacity eviction under both locks. An entry object
\* is named by the handle it was created with (entry.file is never assigned
\* again), so entry == entryToEvict compares the handles.
EvictRecheck(cache, q, entryToEvict, t) ==
    /\ q \in DOMAIN cache
    /\ cache[q].file = entryToEvict
    /\ Evictable(cache[q], t)

\* fileCache.Lock() after mutexToEvict.Lock(), the re-check, and either the
\* removal up to contentCache.Lock() or the two unlocks.
EvictCheck(s) ==
    LET q == st[s].lruPath IN
    /\ st[s].pc = "evict_check"
    /\ fcLock = Free
    /\ IF EvictRecheck(fileCache, q, st[s].entryToEvict, now)
       THEN /\ CloseHandle(fileCache[q].file)
            /\ fileCache' = MapDelete(fileCache, q)
            /\ fileMu' = MapDelete(fileMu, q)
            /\ fcLock' = s
            /\ st' = [st EXCEPT ![s].pc = "evict_content",
                                ![s].entryToEvict = NoFile]
            /\ UNCHANGED muHolder
       ELSE /\ muHolder' = [muHolder EXCEPT ![st[s].muToEvict] = Free]
            /\ st' = [st EXCEPT ![s].pc = "open", ![s].lruPath = NoPath,
                                ![s].entryToEvict = NoFile,
                                ![s].muToEvict = NoMutex]
            /\ UNCHANGED <<fileCache, fileMu, fcLock, hOpen, hOff, leaked>>
    /\ UNCHANGED <<requests, now, contentCache, ccLock, fs, cs>>
    /\ UNCHANGED <<sig, rq>>

\* contentCache.Lock(); delete(contentCache.cache, lruPath); the three unlocks
EvictContent(s) ==
    /\ st[s].pc = "evict_content"
    /\ ccLock = Free
    /\ contentCache' = MapDelete(contentCache, st[s].lruPath)
    /\ fcLock' = Free
    /\ muHolder' = [muHolder EXCEPT ![st[s].muToEvict] = Free]
    /\ st' = [st EXCEPT ![s].pc = "open", ![s].lruPath = NoPath,
                        ![s].muToEvict = NoMutex]
    /\ UNCHANGED <<requests, now, fileCache, ccLock, fileMu, hOpen, hOff, leaked, fs, cs>>
    /\ UNCHANGED <<sig, rq>>

\* The branch "mutex was missing": delete(fileCache.cache, lruPath) under the
\* global lock only, with no re-check and no Close.
EvictNoMutex(s) ==
    LET q == st[s].lruPath IN
    /\ st[s].pc = "evict_nomutex"
    /\ fcLock = Free
    /\ fileCache' = MapDelete(fileCache, q)
    /\ st' = [st EXCEPT ![s].pc = "open", ![s].lruPath = NoPath,
                        ![s].entryToEvict = NoFile]
    /\ IF q \in DOMAIN fileCache /\ \A t \in Streams : st[t].file # fileCache[q].file
       THEN DropHandle(fileCache[q].file)
       ELSE UNCHANGED <<hOpen, hOff, leaked>>
    /\ UNCHANGED <<requests, now, fcLock, contentCache, ccLock, fileMu, muHolder, fs, cs>>
    /\ UNCHANGED <<sig, rq>>

\* os.Open succeeds: in openAndCacheFile, or directly when the cache is full
\* and nothing can be evicted (the handle is then returned uncached).
OpenOk(s) ==
    /\ st[s].pc \in {"open", "open_direct"}
    /\ FreeHandles(st[s].path) # {}
    /\ OpenHandle(FreshHandle(st[s].path))
    /\ st' = [st EXCEPT ![s].pc = IF st[s].pc = "open" THEN "preload" ELSE "stat",
                        ![s].file = FreshHandle(st[s].path)]
    /\ UNCHANGED <<requests, now, fileCache, fcLock, contentCache, ccLock, fileMu,
                   muHolder, fs, cs>>
    /\ UNCHANGED <<sig, rq>>

\* A failed open that is answered with no status at all.
FailedOpenSilent(r) == [r EXCEPT !.pc = "unlock"]
\* Stream after getFileFromCacheOrOpen returned an error:
\* c.AbortWithStatus(http.StatusNotFound) and return.
FailedOpen(r) == [r EXCEPT !.pc = "unlock", !.status = 404]

\* os.Open fails: getFileFromCacheOrOpen returns the error and Stream answers
\* 404; only the deferred mutex.Unlock() is pending.
OpenErr(s) ==
    /\ st[s].pc \in {"open", "open_direct"}
    /\ st' = [st EXCEPT ![s] = FailedOpen(@)]
    /\ UNCHANGED <<requests, now, fileCache, fcLock, contentCache, ccLock, fileMu,
                   muHolder, hOpen, hOff, leaked, fs, cs>>
    /\ UNCHANGED <<sig, rq>>

\* preloadFileContent up to the ReadAt: contentCache.Lock(), and the return
\* when the path is cached already.
preloadFileContent(s) ==
    /\ st[s].pc = "preload"
    /\ ccLock = Free
    /\ IF st[s].path \in DOMAIN contentCache
       THEN /\ st' = [st EXCEPT ![s].pc = "insert"]
            /\ UNCHANGED ccLock
       ELSE /\ st' = [st EXCEPT ![s].pc = "preload_read"]
            /\ ccLock' = s
    /\ UNCHANGED <<requests, now, fileCache, fcLock, contentCache, fileMu, muHolder,
                   hOpen, hOff, leaked, fs, cs>>
    /\ UNCHANGED <<sig, rq>>

\* file.ReadAt(buffer, 0): the first initialContentCacheSize bytes of the
\* file, or fewer at EOF. ReadAt does not move the handle's offset.
PreloadBytes(p) == FileBytes(p, 0, Min(FileSize(p), initialContentCacheSize) - 1)

\* ReadAt returned (nil or io.EOF): the head is cached; the deferred Unlock.
PreloadReadOk(s) ==
    /\ st[s].pc = "preload_read"
    /\ contentCache' = MapPut(contentCache, st[s].path, PreloadBytes(st[s].path))
    /\ ccLock' = Free
    /\ st' = [st EXCEPT ![s].pc = "insert"]
    /\ UNCHANGED <<requests, now, fileCache, fcLock, fileMu, muHolder,
                   hOpen, hOff, leaked, fs, cs>>
    /\ UNCHANGED <<sig, rq>>

\* ReadAt failed: nothing is cached; the deferred Unlock.
PreloadReadErr(s) ==
    /\ st[s].pc = "preload_read"
    /\ ccLock' = Free
    /\ st' = [st EXCEPT ![s].pc = "insert"]
    /\ UNCHANGED <<requests, now, fileCache, fcLock, contentCache, fileMu, muHolder,
                   hOpen, hOff, leaked, fs, cs>>
    /\ UNCHANGED <<sig, rq>>

\* What openAndCacheFile returns when the path was inserted meanwhile:
\* "return entry.file, true, nil", the handle of the entry that is there.
ReturnOwnHandle(own, entry) == own
ReturnEntryHandle(own, entry) == entry.file

\* openAndCacheFile, its critical section: the path was inserted meanwhile
\* (close the fresh handle, share the entry) or the new entry is inserted.
openAndCacheFile(s) ==
    LET p == st[s].path IN
    /\ st[s].pc = "insert"
    /\ fcLock = Free
    /\ IF p \in DOMAIN fileCache
       THEN /\ CloseHandle(st[s].file)
            /\ fileCache' = [fileCache EXCEPT ![p] = AcquireEntry(@)]
            /\ st' = [st EXCEPT ![s].pc = "stat", ![s].isCached = TRUE,
                                ![s].file =
                                    ReturnEntryHandle(st[s].file, fileCache[p])]
       ELSE /\ fileCache' = MapPut(fileCache, p,
                               [file |-> st[s].file, refCount |-> 1, lastUsed |-> now])
            /\ st' = [st EXCEPT ![s].pc = "stat", ![s].isCached = TRUE]
            /\ UNCHANGED <<hOpen, hOff, leaked>>
    /\ UNCHANGED <<requests, now, fcLock, contentCache, ccLock, fileMu, muHolder, fs, cs>>
    /\ UNCHANGED <<sig, rq>>

\* ------------------------------------------------- Stream: stat and headers

\* c.AbortWithStatus(code): the status is set and the header is written at
\* once (with the header map as it is then), unless a header was written
\* before (the first one stays).
Abort(r, code) ==
    [r EXCEPT !.status = code,
              !.committed = IF r.committed = 0 THEN code ELSE r.committed,
              !.sent = IF r.committed = 0 THEN r.hdr ELSE r.sent]

\* The status streamFullFile / streamPartialFile set before c.Writer.Flush().
ResponseStatus(header, start, end, fileSize) ==
    IF start = 0 /\ end = fileSize - 1
    THEN IF header # <<>> \/ start # 0 \/ end # fileSize - 1 THEN 206 ELSE 200
    ELSE 206

\* The headers streamFullFile / streamPartialFile set before c.Writer.Flush().
ResponseHeaders(header, start, end, fileSize) ==
    IF start = 0 /\ end = fileSize - 1
    THEN IF header # <<>> \/ start # 0 \/ end # fileSize - 1
         THEN [contentLength |-> end - start + 1,
               contentRange |-> <<start, end, fileSize>>]
         ELSE [contentLength |-> fileSize, contentRange |-> <<>>]
    ELSE [contentLength |-> end - start + 1,
          contentRange |-> <<start, end, fileSize>>]

\* bufferSize of streamFile
BufferSize(start) == IF start # 0 THEN largeBufferSize ELSE smallBufferSize

\* Stream from file.Stat() returning without error up to the first lock of
\* streamFile: the range is parsed; a start at or beyond the file size (or an
\* end before start) is answered 416, a panic of the parser is answered 500 by
\* gin's Recovery after the deferred release and unlock; otherwise the status
\* and headers are written and flushed.
StatOk(s) ==
    LET fileSize == FileSize(st[s].path)
        r == parseRangeHeader(st[s].header, fileSize)
        end == IF r.end >= fileSize THEN fileSize - 1 ELSE r.end
        code == ResponseStatus(st[s].header, r.start, end, fileSize)
    IN
    /\ st[s].pc = "stat"
    /\ hOpen[st[s].file]
    /\ st' = [st EXCEPT ![s] =
          IF r.panic
          THEN [@ EXCEPT !.pc = "release", !.status = 500, !.committed = 500,
                         !.fileSize = fileSize, !.parsed = r]
          ELSE IF r.start >= fileSize \/ end < r.start
          THEN [Abort(@, 416) EXCEPT !.pc = "release", !.start = r.start, !.end = end,
                         !.fileSize = fileSize, !.parsed = r,
                         !.hdr = [@ EXCEPT !.contentRange = <<fileSize>>]]
          ELSE [@ EXCEPT !.pc = "sf_lookup", !.status = code, !.committed = code,
                         !.fileSize = fileSize, !.parsed = r,
                         !.hdr = ResponseHeaders(st[s].header, r.start, end, fileSize),
                         !.sent = ResponseHeaders(st[s].header, r.start, end, fileSize),
                         !.start = r.start, !.end = end, !.hasBuffer = TRUE,
                         !.bufferSize = BufferSize(r.start),
                         !.currentOffset = r.start,
                         !.bytesRemaining = end - r.start + 1]]
    /\ UNCHANGED <<requests, now, fileCache, fcLock, contentCache, ccLock, fileMu,
                   muHolder, hOpen, hOff, leaked, fs, cs>>
    /\ UNCHANGED <<sig, rq>>

\* file.Stat() fails (always on a closed handle): a cached entry holding this
\* handle is closed and removed together with the path's mutex; 500.
StatErr(s) ==
    LET p == st[s].path IN
    /\ st[s].pc = "stat"
    /\ fcLock = Free
    /\ IF p \in DOMAIN fileCache /\ fileCache[p].file = st[s].file
       THEN /\ CloseHandle(st[s].file)
            /\ fileCache' = MapDelete(fileCache, p)
            /\ fileMu' = MapDelete(fileMu, p)
       ELSE UNCHANGED <<fileCache, fileMu, hOpen, hOff, leaked>>
    /\ st' = [st EXCEPT ![s] = [Abort(@, 500) EXCEPT !.pc = "release"]]
    /\ UNCHANGED <<requests, now, fcLock, contentCache, ccLock, muHolder, fs, cs>>
    /\ UNCHANGED <<sig, rq>>

\* -------------------------------------------------------------- streamFile

\* A cached part that runs to the end of the head, whatever the range's end.
CacheServeEndUnclamped(cached, end) == Len(cached) - 1

\* The part of the range the content cache serves: [currentOffset, cacheServeEnd].
CacheServeEnd(cached, end) == Min(Len(cached) - 1, end)

\* streamFile: contentCache.Lock() and the lookup; the lock is kept for the
\* write when the range starts inside the cached head.
StreamLookup(s) ==
    LET p == st[s].path IN
    /\ st[s].pc = "sf_lookup"
    /\ ccLock = Free
    /\ IF /\ p \in DOMAIN contentCache
          /\ st[s].currentOffset < Len(contentCache[p])
          /\ CacheServeEnd(contentCache[p], st[s].end) - st[s].currentOffset + 1 > 0
       THEN /\ ccLock' = s
            /\ st' = [st EXCEPT ![s].pc = "cache_write"]
       ELSE /\ UNCHANGED ccLock
            /\ st' = [st EXCEPT ![s].pc = "seek"]
    /\ UNCHANGED <<requests, now, fileCache, fcLock, contentCache, fileMu, muHolder,
                   hOpen, hOff, leaked, fs, cs>>
    /\ UNCHANGED <<sig, rq>>

\* c.Writer.Write(cached[cacheServeStart : cacheServeEnd+1]) succeeds;
\* contentCache.Unlock(); Flush; the counters advance.
CacheWriteOk(s) ==
    LET cached == contentCache[st[s].path]
        cacheServeEnd == CacheServeEnd(cached, st[s].end)
        n == cacheServeEnd - st[s].currentOffset + 1
    IN
    /\ st[s].pc = "cache_write"
    /\ ccLock' = Free
    /\ st' = [st EXCEPT ![s] = [@ EXCEPT
          !.out = @ \o SubSeq(cached, st[s].currentOffset + 1, cacheServeEnd + 1),
          !.flushes = @ + 1,
          !.writtenBytes = @ + n,
          !.bytesRemaining = @ - n,
          !.currentOffset = @ + n,
          !.pc = IF st[s].bytesRemaining - n = 0 THEN "release" ELSE "seek"]]
    /\ UNCHANGED <<requests, now, fileCache, fcLock, contentCache, fileMu, muHolder,
                   hOpen, hOff, leaked, fs, cs>>
    /\ UNCHANGED <<sig, rq>>

\* the write of the cached bytes fails (the client is gone)
CacheWriteErr(s) ==
    /\ st[s].pc = "cache_write"
    /\ ccLock' = Free
    /\ st' = [st EXCEPT ![s].pc = "release", ![s].writeFailed = TRUE]
    /\ UNCHANGED <<requests, now, fileCache, fcLock, contentCache, fileMu, muHolder,
                   hOpen, hOff, leaked, fs, cs>>
    /\ UNCHANGED <<sig, rq>>

\* if bytesRemaining > 0 && currentOffset > 0 { file.Seek(currentOffset) }
SeekOk(s) ==
    /\ st[s].pc = "seek"
    /\ IF st[s].bytesRemaining > 0 /\ st[s].currentOffset > 0
       THEN /\ hOpen[st[s].file]
            /\ hOff' = [hOff EXCEPT ![st[s].file] = st[s].currentOffset]
       ELSE UNCHANGED hOff
    /\ st' = [st EXCEPT ![s].pc = "read"]
    /\ UNCHANGED <<requests, now, fileCache, fcLock, contentCache, ccLock, fileMu,
                   muHolder, hOpen, leaked, fs, cs>>
    /\ UNCHANGED <<sig, rq>>

\* file.Seek fails (always on a closed handle): 500
SeekErr(s) ==
    /\ st[s].pc = "seek"
    /\ st[s].bytesRemaining > 0 /\ st[s].currentOffset > 0
    /\ st' = [st EXCEPT ![s] = [Abort(@, 500) EXCEPT !.pc = "release",
                                                     !.readFailed = TRUE]]
    /\ UNCHANGED <<requests, now, fileCache, fcLock, contentCache, ccLock, fileMu,
                   muHolder, hOpen, hOff, leaked, fs, cs>>
    /\ UNCHANGED <<sig, rq>>

\* file.Read(buffer[:readSize]) without error: the bytes at the handle's
\* offset, which advances; at or beyond the end of the file io.EOF, which
\* ends the loop (final Flush).
ReadOk(s) ==
    LET f == st[s].file
        p == st[s].path
        readSize == Min(st[s].bufferSize, st[s].bytesRemaining)
        n == Min(readSize, FileSize(p) - hOff[f])
    IN
    /\ st[s].pc = "read"
    /\ hOpen[f]
    /\ IF n <= 0
       THEN /\ st' = [st EXCEPT ![s].pc = "release", ![s].flushes = @ + 1]
            /\ UNCHANGED hOff
       ELSE /\ st' = [st EXCEPT ![s].pc = "write",
                                ![s].buffer = FileBytes(p, hOff[f], hOff[f] + n - 1)]
            /\ hOff' = [hOff EXCEPT ![f] = @ + n]
    /\ UNCHANGED <<requests, now, fileCache, fcLock, contentCache, ccLock, fileMu,
                   muHolder, hOpen, leaked, fs, cs>>
    /\ UNCHANGED <<sig, rq>>

\* file.Read fails (always on a closed handle): 500
ReadErr(s) ==
    /\ st[s].pc = "read"
    /\ st' = [st EXCEPT ![s] = [Abort(@, 500) EXCEPT !.pc = "release",
                                                     !.readFailed = TRUE]]
    /\ UNCHANGED <<requests, now, fileCache, fcLock, contentCache, ccLock, fileMu,
                   muHolder, hOpen, hOff, leaked, fs, cs>>
    /\ UNCHANGED <<sig, rq>>

\* writtenBytes%flushChunkSize == 0 || bytesRemaining == 0
FlushDue(writtenBytes, bytesRemaining) ==
    writtenBytes % flushChunkSize = 0 \/ bytesRemaining = 0

\* c.Writer.Write(buffer[:n]) succeeds; the counters advance; Flush when due;
\* after the last byte the loop ends (final Flush).
WriteOk(s) ==
    LET n == Len(st[s].buffer)
        written == st[s].writtenBytes + n
        remaining == st[s].bytesRemaining - n
    IN
    /\ st[s].pc = "write"
    /\ st' = [st EXCEPT ![s] = [@ EXCEPT
          !.out = @ \o st[s].buffer,
          !.buffer = <<>>,
          !.writtenBytes = written,
          !.bytesRemaining = remaining,
          !.currentOffset = @ + n,
          !.flushes = @ + (IF FlushDue(written, remaining) THEN 1 ELSE 0)
                        + (IF remaining = 0 THEN 1 ELSE 0),
          !.pc = IF remaining = 0 THEN "release" ELSE "read"]]
    /\ UNCHANGED <<requests, now, fileCache, fcLock, contentCache, ccLock, fileMu,
                   muHolder, hOpen, hOff, leaked, fs, cs>>
    /\ UNCHANGED <<sig, rq>>

\* the write fails (the client is gone): streamFile returns
WriteErr(s) ==
    /\ st[s].pc = "write"
    /\ st' = [st EXCEPT ![s].pc = "release", ![s].writeFailed = TRUE,
                        ![s].buffer = <<>>]
    /\ UNCHANGED <<requests, now, fileCache, fcLock, contentCache, ccLock, fileMu,
                   muHolder, hOpen, hOff, leaked, fs, cs>>
    /\ UNCHANGED <<sig, rq>>

\* -------------------------------------------------- Stream: deferred calls

\* The guard of the deferred release of a cached handle.
ReleaseApplies(cache, p, file) == p \in DOMAIN cache /\ cache[p].file = file

\* A release that stamps lastUsed but keeps the count.
ReleaseEntryStampOnly(entry, t) == [entry EXCEPT !.lastUsed = t]

\* entry.refCount--, with lastUsed stamped at 0 and a negative count clamped.
ReleaseEntry(entry, t) ==
    LET rc == entry.refCount - 1 IN
    IF rc = 0 THEN [entry EXCEPT !.refCount = 0, !.lastUsed = t]
    ELSE IF rc < 0 THEN [entry EXCEPT !.refCount = 0]
    ELSE [entry EXCEPT !.refCount = rc]

\* A release that decrements whatever entry the path has now, with neither
\* the comparison of the handles nor the clamp.
ReleaseCachedUnguarded(cache, p, file, t) ==
    IF p \in DOMAIN cache
    THEN [cache EXCEPT ![p].refCount = @ - 1]
    ELSE cache

\* The cached branch of the deferred release, between fileCache.Lock() and
\* fileCache.Unlock(): the cache after a stream gives back `file` of path p.
ReleaseCached(cache, p, file, t) ==
    IF ReleaseApplies(cache, p, file)
    THEN [cache EXCEPT ![p] = ReleaseEntry(@, t)]
    ELSE cache

\* The deferred function Stream registered after the acquire: the cached
\* entry's refCount is given back under fileCache.Lock(); an uncached handle
\* is closed. The bufferPool.Put that streamFile deferred runs first, when
\* streamFile returns.
StreamRelease(s) ==
    LET p == st[s].path IN
    /\ st[s].pc = "release"
    /\ IF st[s].isCached
       THEN /\ fcLock = Free
            /\ fileCache' = ReleaseCached(fileCache, p, st[s].file, now)
            /\ st' = [st EXCEPT ![s].pc = "unlock", ![s].file = NoFile,
                                ![s].hasBuffer = FALSE,
                                ![s].decrements =
                                    IF ReleaseApplies(fileCache, p, st[s].file)
                                    THEN @ + 1 ELSE @]
            /\ IF /\ ~ReleaseApplies(fileCache, p, st[s].file)
                  /\ \A q \in DOMAIN fileCache : fileCache[q].file # st[s].file
                  /\ \A t \in Streams \ {s} : st[t].file # st[s].file
               THEN DropHandle(st[s].file)
               ELSE UNCHANGED <<hOpen, hOff, leaked>>
       ELSE /\ CloseHandle(st[s].file)
            /\ st' = [st EXCEPT ![s].pc = "unlock", ![s].file = NoFile,
                                ![s].hasBuffer = FALSE,
                                ![s].closes = @ + 1]
            /\ UNCHANGED fileCache
    /\ UNCHANGED <<requests, now, fcLock, contentCache, ccLock, fileMu, muHolder, fs, cs>>
    /\ UNCHANGED <<sig, rq>>

\* The deferred mutex.Unlock(): Stream returns, and the handler is free for
\* the next request.
StreamUnlock(s) ==
    /\ st[s].pc = "unlock"
    /\ muHolder' = [muHolder EXCEPT ![st[s].mutex] = Free]
    /\ st' = [st EXCEPT ![s] = IdleStream]
    /\ UNCHANGED <<requests, now, fileCache, fcLock, contentCache, ccLock, fileMu,
                   hOpen, hOff, leaked, fs, cs>>
    /\ UNCHANGED <<sig, rq>>

\* ------------------------------------------------------- the file sweeper

\* After the sleep: under fileCache.Lock(), pathsToCleanup is collected.
FileSweeperCollect ==
    /\ fs.pc = "sleep"
    /\ fcLock = Free
    /\ fs' = [fs EXCEPT !.pc = "loop",
                        !.paths = {q \in DOMAIN fileCache : Evictable(fileCache[q], now)}]
    /\ fcLock' = UnlockForVictim(FileSweeper)
    /\ UNCHANGED <<requests, now, fileCache, contentCache, ccLock, fileMu,
                   muHolder, hOpen, hOff, leaked, st, cs>>
    /\ UNCHANGED <<sig, rq>>

\* The next path of pathsToCleanup and fileMu.Load(path); a path without a
\* mutex is skipped; after the last path the sweeper sleeps.
FileSweeperNext ==
    /\ fs.pc = "loop"
    /\ IF fs.paths = {}
       THEN fs' = [fs EXCEPT !.pc = "sleep"]
       ELSE \E q \in fs.paths :
              IF q \in DOMAIN fileMu
              THEN fs' = [pc |-> "lock", paths |-> fs.paths \ {q},
                          path |-> q, mutex |-> fileMu[q]]
              ELSE fs' = [fs EXCEPT !.paths = fs.paths \ {q}]
    /\ UNCHANGED <<requests, now, fileCache, fcLock, contentCache, ccLock, fileMu,
                   muHolder, hOpen, hOff, leaked, st, cs>>
    /\ UNCHANGED <<sig, rq>>

\* mutex.Lock() of the sweeper
FileSweeperLock ==
    /\ fs.pc = "lock"
    /\ muHolder[fs.mutex] = Free
    /\ muHolder' = [muHolder EXCEPT ![fs.mutex] = FileSweeper]
    /\ fs' = [fs EXCEPT !.pc = "check"]
    /\ UNCHANGED <<requests, now, fileCache, fcLock, contentCache, ccLock, fileMu,
                   hOpen, hOff, leaked, st, cs>>
    /\ UNCHANGED <<sig, rq>>

\* fileCache.Lock(), the re-check, and either the removal up to
\* contentCache.Lock() or the two unlocks.
FileSweeperCheck ==
    LET q == fs.path IN
    /\ fs.pc = "check"
    /\ fcLock = Free
    /\ IF q \in DOMAIN fileCache /\ Evictable(fileCache[q], now)
       THEN /\ CloseHandle(fileCache[q].file)
            /\ fileCache' = MapDelete(fileCache, q)
            /\ fileMu' = MapDelete(fileMu, q)
            /\ fcLock' = FileSweeper
            /\ fs' = [fs EXCEPT !.pc = "content"]
            /\ UNCHANGED muHolder
       ELSE /\ muHolder' = [muHolder EXCEPT ![fs.mutex] = Free]
            /\ fs' = [fs EXCEPT !.pc = "loop", !.path = NoPath, !.mutex = NoMutex]
            /\ UNCHANGED <<fileCache, fileMu, fcLock, hOpen, hOff, leaked>>
    /\ UNCHANGED <<requests, now, contentCache, ccLock, st, cs>>
    /\ UNCHANGED <<sig, rq>>

\* contentCache.Lock(); delete(contentCache.cache, path); the three unlocks
FileSweeperContent ==
    /\ fs.pc = "content"
    /\ ccLock = Free
    /\ contentCache' = MapDelete(contentCache, fs.path)
    /\ fcLock' = Free
    /\ muHolder' = [muHolder EXCEPT ![fs.mutex] = Free]
    /\ fs' = [fs EXCEPT !.pc = "loop", !.path = NoPath, !.mutex = NoMutex]
    /\ UNCHANGED <<requests, now, fileCache, ccLock, fileMu, hOpen, hOff, leaked, st, cs>>
    /\ UNCHANGED <<sig, rq>>

\* ---------------------------------------------------- the content sweeper

\* After the sleep: contentCache.Lock(); the range loop starts.
ContentSweeperBegin ==
    /\ cs.pc = "sleep"
    /\ ccLock = Free
    /\ ccLock' = ContentSweeper
    /\ cs' = [pc |-> "scan", todo |-> DOMAIN contentCache, cleanup |-> {}]
    /\ UNCHANGED <<requests, now, fileCache, fcLock, contentCache, fileMu, muHolder,
                   hOpen, hOff, leaked, st, fs>>
    /\ UNCHANGED <<sig, rq>>

\* One iteration of the range loop: fileCache.Lock(), the lookup, Unlock; a
\* path with no entry or with refCount = 0 is collected. (The source reads
\* entry.refCount just after the Unlock; the model reads it at the lookup.)
ContentSweeperScan ==
    /\ cs.pc = "scan"
    /\ cs.todo # {}
    /\ fcLock = Free
    /\ \E q \in cs.todo :
         cs' = [cs EXCEPT !.todo = cs.todo \ {q},
                          !.cleanup = IF q \notin DOMAIN fileCache
                                         \/ fileCache[q].refCount = 0
                                      THEN cs.cleanup \cup {q} ELSE cs.cleanup]
    /\ UNCHANGED <<requests, now, fileCache, fcLock, contentCache, ccLock, fileMu,
                   muHolder, hOpen, hOff, leaked, st, fs>>
    /\ UNCHANGED <<sig, rq>>

\* The collected paths are deleted; contentCache.Unlock().
ContentSweeperDelete ==
    /\ cs.pc = "scan"
    /\ cs.todo = {}
    /\ contentCache' = [q \in DOMAIN contentCache \ cs.cleanup |-> contentCache[q]]
    /\ ccLock' = Free
    /\ cs' = [pc |-> "sleep", todo |-> {}, cleanup |-> {}]
    /\ UNCHANGED <<requests, now, fileCache, fcLock, fileMu, muHolder,
                   hOpen, hOff, leaked, st, fs>>
    /\ UNCHANGED <<sig, rq>>

\* ----------------------------------------------------------- the system

\* The steps of one request handler: Stream and everything it calls, with
\* every failure of the OS and of the client.
StreamStep(s, paths, headers, limit) ==
    \/ StreamBeginWith(s, paths, headers, limit)
    \/ StreamLock(s) \/ getFileFromCacheOrOpen(s)
    \/ EvictLoadMutex(s) \/ EvictLock(s) \/ EvictCheck(s) \/ EvictContent(s)
    \/ EvictNoMutex(s)
    \/ OpenOk(s) \/ OpenErr(s)
    \/ preloadFileContent(s) \/ PreloadReadOk(s) \/ PreloadReadErr(s)
    \/ openAndCacheFile(s)
    \/ StatOk(s) \/ StatErr(s)
    \/ StreamLookup(s) \/ CacheWriteOk(s) \/ CacheWriteErr(s)
    \/ SeekOk(s) \/ SeekErr(s) \/ ReadOk(s) \/ ReadErr(s)
    \/ WriteOk(s) \/ WriteErr(s)
    \/ StreamRelease(s) \/ StreamUnlock(s)

FileSweeperStep ==
    \/ FileSweeperCollect \/ FileSweeperNext \/ FileSweeperLock
    \/ FileSweeperCheck \/ FileSweeperContent

ContentSweeperStep ==
    \/ ContentSweeperBegin \/ ContentSweeperScan \/ ContentSweeperDelete

\* The concurrent system: the handlers in parallel with both sweepers.
Next ==
    \/ \E s \in Streams : StreamStep(s, Paths, {HeaderNone}, MaxRequests)
    \/ FileSweeperStep
    \/ ContentSweeperStep
    \/ Tick

Spec == Init /\ [][Next]_vars

\* The steps of a handler without the failures of reads, seeks and writes.
CacheStep(s, paths, headers, limit) ==
    \/ StreamBeginWith(s, paths, headers, limit)
    \/ StreamLock(s) \/ getFileFromCacheOrOpen(s)
    \/ EvictLoadMutex(s) \/ EvictLock(s) \/ EvictCheck(s) \/ EvictContent(s)
    \/ EvictNoMutex(s)
    \/ OpenOk(s) \/ OpenErr(s)
    \/ preloadFileContent(s) \/ PreloadReadOk(s)
    \/ openAndCacheFile(s)
    \/ StatOk(s) \/ StatErr(s)
    \/ StreamLookup(s) \/ CacheWriteOk(s)
    \/ SeekOk(s) \/ ReadOk(s) \/ WriteOk(s)
    \/ StreamRelease(s) \/ StreamUnlock(s)

\* The file-handle cache under load: the handlers in parallel with the file
\* sweeper, one request more than in Spec.
NextCache ==
    \/ \E s \in Streams : CacheStep(s, Paths, {HeaderNone}, MaxRequests + 1)
    \/ FileSweeperStep
    \/ Tick

SpecCache == Init /\ [][NextCache]_vars

\* The handlers and the file sweeper under fair scheduling: the sweeper's
\* goroutine and the clock always go on, and a handler that has begun a
\* request takes its next step when it can (requests arrive or not, as the
\* clients please).
NextFair ==
    \/ \E s \in Streams : CacheStep(s, Paths, {HeaderNone}, MaxRequests)
    \/ FileSweeperStep
    \/ Tick

SpecFair ==
    /\ Init /\ [][NextFair]_vars
    /\ WF_vars(FileSweeperStep)
    /\ WF_vars(Tick)
    /\ \A s \in Streams :
          WF_vars(st[s].pc # "idle" /\ CacheStep(s, Paths, {HeaderNone}, MaxRequests))

\* The scan for the victim and the deferred release as functions of the
\* cache: the cache is any map of idle and used entries stamped up to now,
\* and handler 1 is about to look up a path (cached, or a further path that
\* is not) or about to give back the handle of an entry it holds.
OtherPath == NPaths + 1
CacheEntries(p, t) ==
    [file : {CHOOSE h \in HandlesOf(p) : \A k \in HandlesOf(p) : h <= k},
     refCount : 0..2, lastUsed : 0..t]
CachesAt(t) ==
    UNION {{c \in [D -> UNION {CacheEntries(p, t) : p \in D}] :
               \A p \in D : c[p] \in CacheEntries(p, t)} : D \in SUBSET Paths}
InitScan ==
    /\ requests = 1
    /\ now \in 0..MaxTime
    /\ fileCache \in CachesAt(now)
    /\ fcLock = Free
    /\ contentCache = <<>>
    /\ ccLock = Free
    /\ fileMu = <<>>
    /\ muHolder = [m \in MuIds |-> Free]
    /\ hOpen = [h \in Handles |-> \E p \in DOMAIN fileCache : fileCache[p].file = h]
    /\ hOff = [h \in Handles |-> 0]
    /\ leaked = FALSE
    /\ \E p \in Paths \cup {OtherPath} :
          \/ st = [s \in Streams |->
                     IF s = 1 THEN [IdleStream EXCEPT !.pc = "get", !.path = p]
                     ELSE IdleStream]
          \/ /\ p \in DOMAIN fileCache
             /\ fileCache[p].refCount > 0
             /\ st = [s \in Streams |->
                        IF s = 1
                        THEN [IdleStream EXCEPT !.pc = "release", !.path = p,
                                                !.file = fileCache[p].file,
                                                !.isCached = TRUE]
                        ELSE IdleStream]
    /\ fs = [pc |-> "sleep", paths |-> {}, path |-> NoPath, mutex |-> NoMutex]
    /\ cs = [pc |-> "sleep", todo |-> {}, cleanup |-> {}]
    /\ sig = IdleSig
    /\ rq = [pc |-> "idle", signedWith |-> <<>>, payload |-> <<>>, at |-> 0,
             instance |-> <<>>, writes |-> <<>>, ticket |-> 0]

NextScan ==
    \/ getFileFromCacheOrOpen(1)
    \/ StreamRelease(1)

SpecScan == InitScan /\ [][NextScan]_vars

\* The file-read loop at a write, for a file of any length: handler 1 has
\* written any number of bytes so far (the cached head and earlier reads, of
\* which the OS may have returned short ones), holds the bytes of one read
\* of up to bufferSize bytes and has them, or more, still to send.
MaxWritten == 4
InitFlush ==
    /\ requests = 1
    /\ now = 0
    /\ fileCache = <<>>
    /\ fcLock = Free
    /\ contentCache = <<>>
    /\ ccLock = Free
    /\ fileMu = <<>>
    /\ muHolder = [m \in MuIds |-> Free]
    /\ hOpen = [h \in Handles |-> FALSE]
    /\ hOff = [h \in Handles |-> 0]
    /\ leaked = FALSE
    /\ \E start \in 0..1, written \in 0..MaxWritten, more \in 0..3 :
         \E n \in 1..BufferSize(start) :
            st = [s \in Streams |->
                    IF s = 1
                    THEN [IdleStream EXCEPT
                            !.pc = "write", !.path = 1,
                            !.start = start, !.end = start + written + n + more - 1,
                            !.currentOffset = start + written,
                            !.writtenBytes = written,
                            !.bytesRemaining = n + more,
                            !.bufferSize = BufferSize(start),
                            !.buffer = [k \in 1..n |-> 0],
                            !.out = [k \in 1..written |-> 0],
                            !.status = 206, !.committed = 206, !.flushes = 1,
                            !.hasBuffer = TRUE]
                    ELSE IdleStream]
    /\ fs = [pc |-> "sleep", paths |-> {}, path |-> NoPath, mutex |-> NoMutex]
    /\ cs = [pc |-> "sleep", todo |-> {}, cleanup |-> {}]
    /\ sig = IdleSig
    /\ rq = [pc |-> "idle", signedWith |-> <<>>, payload |-> <<>>, at |-> 0,
             instance |-> <<>>, writes |-> <<>>, ticket |-> 0]

NextFlush ==
    \/ WriteOk(1)
    \/ WriteErr(1)

SpecFlush == InitFlush /\ [][NextFlush]_vars

\* One request at a time (a single handler), with every Range header of the
\* model, every failure and both sweepers.
NextSeq ==
    \/ StreamStep(1, Paths, StreamHeaders, SeqRequests)
    \/ FileSweeperStep
    \/ ContentSweeperStep
    \/ Tick

SpecSeq == Init /\ [][NextSeq]_vars

\* Requests for distinct paths, one after the other, all of them successful:
\* the k-th request is for path k. Time passes between them or not; the file
\* sweeper sleeps (its interval has not elapsed).
NextDistinct ==
    \/ StreamBeginWith(1, {requests + 1}, {HeaderNone}, NPaths)
    \/ StreamLock(1) \/ getFileFromCacheOrOpen(1)
    \/ EvictLoadMutex(1) \/ EvictLock(1) \/ EvictCheck(1) \/ EvictContent(1)
    \/ OpenOk(1) \/ preloadFileContent(1) \/ PreloadReadOk(1)
    \/ openAndCacheFile(1) \/ StatOk(1)
    \/ StreamLookup(1) \/ CacheWriteOk(1) \/ SeekOk(1) \/ ReadOk(1) \/ WriteOk(1)
    \/ StreamRelease(1) \/ StreamUnlock(1)
    \/ ContentSweeperStep
    \/ Tick

SpecDistinct == Init /\ [][NextDistinct]_vars

\* ------------------------------------------------- the signature service

streamVars == <<requests, now, fileCache, fcLock, contentCache, ccLock, fileMu,
                muHolder, hOpen, hOff, leaked, st, fs, cs, rq>>

\* InitializeSignature(encipher): once.Do runs the function of the first
\* call only; every later call returns the nil initError it declared.
InitializeSignature(encipher) ==
    /\ sig' = IF sig.onceDone THEN [sig EXCEPT !.initError = FALSE]
              ELSE IF Len(encipher) # keyLength
              THEN [sig EXCEPT !.onceDone = TRUE, !.initError = TRUE]
              ELSE [sig EXCEPT !.onceDone = TRUE, !.initError = FALSE,
                               !.instance = encipher]
    /\ UNCHANGED streamVars

\* GetSignatureInstance succeeded, then Encrypt(itemId, mediaId, expireAt):
\* the one token of a run is issued.
SignatureEncrypt(itemId, mediaId, expireAt) ==
    /\ sig.instance # <<>>
    /\ sig.pc = "idle"
    /\ sig' = [sig EXCEPT
          !.pc = "issued",
          !.input = [itemId |-> itemId, mediaId |-> mediaId, expireAt |-> expireAt],
          !.token = Encrypt(sig.instance, itemId, mediaId, expireAt),
          !.output = [err |-> FALSE, data |-> <<>>]]
    /\ UNCHANGED streamVars

\* GetSignatureInstance succeeded, then Decrypt of the token at hand: the
\* token as issued, or the token somebody altered on its way.
SignatureDecrypt ==
    /\ sig.instance # <<>>
    /\ sig.pc \in {"issued", "tampered"}
    /\ sig' = [sig EXCEPT !.pc = IF sig.pc = "issued" THEN "verified" ELSE "checked",
                          !.output = Decrypt(sig.instance, sig.token)]
    /\ UNCHANGED streamVars

\* The signature service alone: initialisation in any order, tokens issued
\* and verified.
NextSig ==
    \/ \E k \in Keys : InitializeSignature(k)
    \/ \E i \in Ids, m \in Ids, e \in ExpireAts : SignatureEncrypt(i, m, e)
    \/ SignatureDecrypt

SpecSig == Init /\ [][NextSig]_vars

\* ----------------------------------------------------- tokens on the wire

\* Byte b with bit k (0 the lowest) flipped.
FlipBit(b, k) == IF (b \div Pow2(k)) % 2 = 1 THEN b - Pow2(k) ELSE b + Pow2(k)

\* The envelope of Encrypt, {"data":"...","signature":"..."}, and the
\* positions of the characters of its two fields: 9 characters precede the
\* data field, 15 separate the two, 2 follow.
Envelope(jsonData, signature) ==
    MarshalPayload(EncodeToString(jsonData), EncodeToString(signature))
FieldPositions(jsonData, signature) ==
    LET d == Len(EncodeToString(jsonData))
        g == Len(EncodeToString(signature))
    IN  (10..(9 + d)) \cup ((25 + d)..(24 + d + g))

\* The token at hand reaches the service with one bit of one character of
\* its data field or of its signature field flipped.
SignatureTamper ==
    LET jsonData == MarshalData(sig.input.itemId, sig.input.mediaId,
                                sig.input.expireAt)
        signature == HmacSha256(sig.instance, jsonData)
    IN  /\ sig.pc = "issued"
        /\ \E p \in FieldPositions(jsonData, signature), k \in 0..7 :
              sig' = [sig EXCEPT
                  !.pc = "tampered",
                  !.token = EncodeToString(
                      [Envelope(jsonData, signature) EXCEPT ![p] = FlipBit(@, k)])]
        /\ UNCHANGED streamVars

\* Tokens for a few payloads, each altered in every possible place.
NextTamper ==
    \/ \E k \in Keys : InitializeSignature(k)
    \/ \E i \in Ids : SignatureEncrypt(i, <<97>>, 1)
    \/ SignatureTamper
    \/ SignatureDecrypt

SpecTamper == Init /\ [][NextTamper]_vars

\* ------------------------------------------------------------- properties

\* Stream s holds the per-path mutex it locked: from mutex.Lock() to the
\* deferred mutex.Unlock().
InCritical(s) == st[s].pc \notin {"idle", "lock"}

\* Stream s returned from streamFile (only the deferred mutex.Unlock() is
\* pending) after it wrote the 200 / 206 header, and neither a write nor a
\* read or seek failed.
Completed(s) ==
    /\ st[s].pc = "unlock"
    /\ st[s].committed \in {200, 206}
    /\ ~st[s].writeFailed
    /\ ~st[s].readFailed

\* The streams that acquired the resident entry of path q and have not yet
\* run their deferred release.
Holders(q) ==
    {s \in Streams : st[s].isCached /\ st[s].file = fileCache[q].file}

\* C1: a stream that ran while another stream of the same path was inside its
\* critical section emitted exactly the bytes file[start..end], in order.
C1_ConcurrentStreamsExact ==
    \A s \in Streams : \A t \in Streams \ {s} :
        (/\ Completed(s)
         /\ InCritical(t)
         /\ st[t].path = st[s].path)
        => st[s].out = FileBytes(st[s].path, st[s].start, st[s].end)

\* C2: at most one stream is between acquiring and releasing the per-path
\* mutex of a path.
C2_OneStreamPerPath ==
    \A s \in Streams : \A t \in Streams \ {s} :
        ~(InCritical(s) /\ InCritical(t) /\ st[s].path = st[t].path)

\* C3: the file cache never holds more than maxCachedFiles entries.
C3_CacheWithinCapacity == Cardinality(DOMAIN fileCache) <= maxCachedFiles

\* A step of the capacity eviction or of the file sweeper (and not the
\* stat-error cleanup) removes the entry of path q.
RemovedByEviction(q) ==
    /\ q \in DOMAIN fileCache
    /\ q \notin DOMAIN fileCache'
    /\ \/ fs.pc = "check" /\ fs'.pc = "content"
       \/ \E s \in Streams : \/ st[s].pc = "evict_check"
                                /\ st'[s].pc = "evict_content"
                             \/ st[s].pc = "evict_nomutex" /\ st'[s].pc = "open"

\* C4: the capacity eviction and the sweeper remove an entry only if its
\* refCount is 0 and its lastUsed is older than the TTL.
C4_EvictOnlyIdleAndAged ==
    [][\A q \in Paths : RemovedByEviction(q) => Evictable(fileCache[q], now)]_vars

\* C5: outside the global lock no entry has a negative refCount.
C5_RefCountNotNegative ==
    fcLock = Free => \A q \in DOMAIN fileCache : fileCache[q].refCount >= 0

\* A stream gave back its reference and left the entry idle.
C5_Witness ==
    \E s \in Streams :
        /\ st[s].pc = "unlock"
        /\ st[s].decrements = 1
        /\ fcLock = Free
        /\ st[s].path \in DOMAIN fileCache
        /\ fileCache[st[s].path].refCount = 0

\* C6: the refCount of every resident entry is the number of streams in
\* flight that acquired it and have not released it (so it is 0 when no
\* stream is in flight).
C6_RefCountIsHolders ==
    \A q \in DOMAIN fileCache : fileCache[q].refCount = Cardinality(Holders(q))

\* Two streams in flight share one entry.
C6_Witness ==
    \E q \in DOMAIN fileCache :
        fileCache[q].refCount = 2 /\ Cardinality(Holders(q)) = 2

\* Stream s acquired a handle (Stream answers 404 only when the open failed)
\* and ran its deferred release.
Released(s) == st[s].pc = "unlock" /\ st[s].status # 404

Releasing(s) == st[s].pc = "release" /\ st'[s].pc = "unlock"

C8_WritesWholeRange ==
    \A s \in Streams :
        Completed(s) => Len(st[s].out) = st[s].end - st[s].start + 1

\* C9: between sequential requests for distinct paths the cache holds
\* exactly min(maxCachedFiles, number of requests so far) entries.
C9_CacheHoldsMin ==
    st[1].pc = "idle" =>
        Cardinality(DOMAIN fileCache) = Min(maxCachedFiles, requests)

\* Decrypt returned, without error, the fields of payload x.
RoundTrip(x, out) ==
    /\ ~out.err
    /\ MapGet(out.data, KeyItemId) = [kind |-> "string", val |-> x.itemId]
    /\ MapGet(out.data, KeyMediaId) = [kind |-> "string", val |-> x.mediaId]
    /\ MapGet(out.data, KeyExpireAt) = [kind |-> "number", val |-> x.expireAt]

\* C10: for every payload, Decrypt of the token Encrypt issued succeeds and
\* returns the itemId, mediaId and expireAt given to Encrypt.
C10_RoundTripAll == sig.pc = "verified" => RoundTrip(sig.input, sig.output)

\* Every float64 step up to this magnitude is an integer step (2^53 in the
\* source).
ExactLimit == Pow2(float64Precision)

\* ------------------------------------------------------------------ Remote

\* A token somebody signed with `key` over a JSON object of his choice: a
\* payload gives each of the three members as [kind, val], or Absent (the
\* val of a number is the sequence of that one number).
PayloadJson(payload) ==
    LET member(key, v) ==
            IF v.kind = "absent" THEN <<>>
            ELSE <<MarshalString(key) \o <<58>>
                     \o (IF v.kind = "string" THEN MarshalString(v.val)
                         ELSE FormatInt(v.val[1]))>>
        parts == member(KeyExpireAt, payload.expireAt)
                   \o member(KeyItemId, payload.itemId)
                   \o member(KeyMediaId, payload.mediaId)
    IN  <<123>> \o Concat([k \in 1..Len(parts) |->
                             IF k = 1 THEN parts[k] ELSE <<44>> \o parts[k]],
                          1, Len(parts)) \o <<125>>
SignedToken(key, payload) ==
    EncodeToString(Envelope(PayloadJson(payload),
                            HmacSha256(key, PayloadJson(payload))))

\* authenticate after Decrypt: the three type assertions, the two empty
\* ids, the expiry. Every failure writes one JSON response (c.JSON) of the
\* status in `writes` and returns an error.
AuthChecked(out, t) ==
    LET itemId == MapGet(out.data, KeyItemId)
        mediaId == MapGet(out.data, KeyMediaId)
        expireAt == MapGet(out.data, KeyExpireAt)
    IN  IF out.err THEN [err |-> TRUE, writes |-> <<401>>]
        ELSE IF \/ itemId.kind # "string"
                \/ mediaId.kind # "string"
                \/ expireAt.kind # "number"
        THEN [err |-> TRUE, writes |-> <<401>>]
        ELSE IF itemId.val = <<>> \/ mediaId.val = <<>>
        THEN [err |-> TRUE, writes |-> <<401>>]
        ELSE IF expireAt.val < t THEN [err |-> TRUE, writes |-> <<401>>]
        ELSE [err |-> FALSE, writes |-> <<>>]

\* authenticate: without a signature instance it answers 500.
authenticate(instance, signature, t) ==
    IF instance = <<>> THEN [err |-> TRUE, writes |-> <<500>>]
    ELSE AuthChecked(Decrypt(instance, signature), t)

\* A request arrives whose signature parameter is a token signed with `key`
\* over `payload`. (The handler is free: its last Stream, if any, returned.)
RemoteRequest(key, payload) ==
    /\ st[1].pc = "idle"
    /\ rq.pc # "received"
    /\ rq.pc = "stream" => requests = rq.ticket
    /\ requests < MaxRequests
    /\ rq' = [pc |-> "received", signedWith |-> key, payload |-> payload,
              at |-> 0, instance |-> <<>>, writes |-> <<>>, ticket |-> 0]
    /\ UNCHANGED <<requests, now, fileCache, fcLock, contentCache, ccLock, fileMu,
                   muHolder, hOpen, hOff, leaked, st, fs, cs, sig>>

\* Remote after authenticate returned: on an error it writes a JSON response
\* of status 401 (after the one authenticate wrote) and returns; otherwise
\* it calls Stream.
Responded(auth) ==
    [rq EXCEPT !.pc = IF auth.err THEN "done" ELSE "stream",
               !.at = now, !.instance = sig.instance,
               !.writes = IF auth.err THEN auth.writes \o <<401>> ELSE <<>>,
               !.ticket = requests + 1]

\* Remote: the handler of the request received.
Remote ==
    /\ rq.pc = "received"
    /\ rq' = Responded(authenticate(sig.instance,
                                    SignedToken(rq.signedWith, rq.payload), now))
    /\ UNCHANGED <<requests, now, fileCache, fcLock, contentCache, ccLock, fileMu,
                   muHolder, hOpen, hOff, leaked, st, fs, cs, sig>>

\* The payloads a request may carry: a complete one that expires at 0 or at
\* 1, and the complete one with one member replaced: an id that is the empty
\* string, a number or absent, an expiry time that is a string or absent.
StringValue(v) == [kind |-> "string", val |-> v]
NumberValue(n) == [kind |-> "number", val |-> <<n>>]
RemotePayloads ==
    LET whole == [itemId |-> StringValue(<<97>>), mediaId |-> StringValue(<<97>>),
                  expireAt |-> NumberValue(MaxTime)]
    IN  {whole, [whole EXCEPT !.expireAt = NumberValue(0)]}
          \cup {[whole EXCEPT !.itemId = v] :
                   v \in {StringValue(<<>>), NumberValue(1), Absent}}
          \cup {[whole EXCEPT !.mediaId = v] : v \in {StringValue(<<>>), Absent}}
          \cup {[whole EXCEPT !.expireAt = v] : v \in {StringValue(<<49>>), Absent}}

\* The service in front of the streamer: one handler, requests with tokens
\* of every kind, signed with the key of the service or with another one;
\* Stream runs for the requests Remote lets through.
NextRemote ==
    \/ \E k \in Keys : InitializeSignature(k)
    \/ \E k \in Keys, d \in RemotePayloads : RemoteRequest(k, d)
    \/ Remote
    \/ rq.pc = "stream" /\ CacheStep(1, Paths, {HeaderNone}, rq.ticket)
    \/ Tick

SpecRemote == Init /\ [][NextRemote]_vars

\* The request Remote handled last (at time r.at, with the signature
\* instance r.instance) carried what authenticate requires.
Authorised(r) ==
    /\ r.instance # <<>>
    /\ r.signedWith = r.instance
    /\ r.payload.itemId.kind = "string" /\ r.payload.itemId.val # <<>>
    /\ r.payload.mediaId.kind = "string" /\ r.payload.mediaId.val # <<>>
    /\ r.payload.expireAt.kind = "number" /\ r.payload.expireAt.val[1] >= r.at

C13_StatusByRangeHeader ==
    \A s \in Streams :
        st[s].fileSize >= 0 /\ st[s].committed # 416 =>
            /\ (st[s].committed = 200 /\ st[s].sent.contentLength = st[s].fileSize)
                   <=> (st[s].header = <<>>)
            /\ st[s].header # <<>> =>
                   /\ st[s].committed = 206
                   /\ st[s].sent.contentLength = st[s].end - st[s].start + 1
                   /\ st[s].sent.contentRange
                         = <<st[s].start, st[s].end, st[s].fileSize>>

\* C14: when the start the parser returned is at or beyond the file size, the
\* client receives status 416, no body, and Content-Range: bytes */fileSize
\* among the headers written with the status.
C14_UnsatisfiableRange ==
    \A s \in Streams :
        st[s].fileSize >= 0 /\ ~st[s].parsed.panic
          /\ st[s].parsed.start >= st[s].fileSize =>
            /\ st[s].committed = 416
            /\ st[s].out = <<>>
            /\ st[s].sent.contentRange = <<st[s].fileSize>>

\* C15: a request without Range header whose file was opened and stat'ed is
\* answered 200 with Content-Length = fileSize, whatever the file size.
C15_NoRangeIsFullFile ==
    \A s \in Streams :
        st[s].fileSize >= 0 /\ st[s].header = <<>> =>
            /\ st[s].committed = 200
            /\ st[s].sent.contentLength = st[s].fileSize

\* C16: for a file of one byte or more, parseRangeHeader returns, whatever
\* the Range header, a window (a, b) with 0 <= a <= b <= fileSize-1 (the
\* full-file fallback (0, fileSize-1) is one of them).
C16_ParsedWindowInFile ==
    \A s \in Streams :
        st[s].fileSize >= 1 =>
            /\ ~st[s].parsed.panic
            /\ 0 <= st[s].parsed.start
            /\ st[s].parsed.start <= st[s].parsed.end
            /\ st[s].parsed.end <= st[s].fileSize - 1

\* C17: for a multi-range header and for a suffix range the parser returns
\* the full-file window (0, fileSize-1).
C17_UnsupportedFallsBackToFull ==
    \A s \in Streams :
        st[s].fileSize >= 0 /\ st[s].header \in {HeaderMulti, HeaderSuffix} =>
            st[s].parsed = FullRange(st[s].fileSize)

\* C17, amended: for a suffix range the parser returns the full-file window;
\* for a multi-range header bytes=a-b,c-d it keeps the first start and
\* returns (a, fileSize-1), the full window only when a = 0.
C17_SuffixFullMultiFromStart ==
    \A s \in Streams :
        st[s].fileSize >= 0 =>
            /\ st[s].header = HeaderSuffix =>
                   st[s].parsed = FullRange(st[s].fileSize)
            /\ st[s].header = HeaderMulti =>
                   st[s].parsed = [panic |-> FALSE, start |-> 1,
                                   end |-> st[s].fileSize - 1]
            /\ st[s].header = HeaderMultiFrom0 =>
                   st[s].parsed = FullRange(st[s].fileSize)

\* The multi-range header was parsed for the 3-byte file.
C17_Witness ==
    \E s \in Streams :
        /\ st[s].fileSize = 3
        /\ st[s].header = HeaderMulti
        /\ st[s].parsed.start = 1 /\ st[s].parsed.end = 2

\* C18: every call of InitializeSignature with a key that is not keyLength
\* bytes long returns an error, the first call and every later one.
C18_BadKeyAlwaysRejected ==
    [][\A k \in Keys :
          Len(k) # keyLength /\ InitializeSignature(k) => sig'.initError]_vars

\* C19: no thread is about to acquire a per-path mutex (Stream's own, the
\* victim's of the capacity eviction, the victim's of the file sweeper) while
\* it holds the global file-cache mutex.
C19_NoPathLockUnderGlobal ==
    /\ \A s \in Streams :
          st[s].pc \in {"lock", "evict_load", "evict_lock"} => fcLock # s
    /\ fs.pc \in {"loop", "lock"} => fcLock # FileSweeper

\* A handler and the sweeper are both about to lock the mutex of a victim
\* while a third thread holds the global mutex.
C19_Witness ==
    /\ \E s \in Streams : st[s].pc = "evict_lock"
    /\ fs.pc = "lock"
    /\ fcLock \in Streams

\* C20: when the seek or a read of streamFile failed, the status the client
\* receives is 500.
C20_ReadErrorIs500 ==
    \A s \in Streams : st[s].readFailed => st[s].committed = 500

\* C21: after a response write failed, in the cache-served phase or in the
\* read loop, the stream writes no further byte, does not hold the
\* content-cache mutex, and by the time only its mutex.Unlock() is pending
\* it gave the buffer back and decremented the refCount once (closed the
\* uncached handle once); its last step frees the per-path mutex.
C21_WriteErrorCleansUp ==
    /\ [](\A s \in Streams :
            st[s].writeFailed =>
                /\ ccLock # s
                /\ st[s].pc = "unlock" =>
                      /\ ~st[s].hasBuffer
                      /\ IF st[s].isCached
                         THEN st[s].decrements = 1 /\ st[s].closes = 0
                         ELSE st[s].closes = 1 /\ st[s].decrements = 0)
    /\ [][\A s \in Streams :
            st[s].writeFailed =>
                /\ st'[s].writeFailed => st'[s].out = st[s].out
                /\ st[s].pc = "unlock" /\ st'[s].pc = "idle" =>
                      muHolder'[st[s].mutex] = Free]_vars

\* file.Stat() of stream s failed (the only 500 before a file size is known).
StatFailed(s) == st[s].status = 500 /\ st[s].fileSize < 0

\* C22: when stat, seek or read failed on a cached handle, then by the time
\* only the mutex.Unlock() of Stream is pending the path has an entry
\* neither in the file cache nor in the content cache.
C22_FailedHandlePurged ==
    \A s \in Streams :
        (/\ st[s].pc = "unlock"
         /\ st[s].isCached
         /\ StatFailed(s) \/ st[s].readFailed)
        => /\ st[s].path \notin DOMAIN fileCache
           /\ st[s].path \notin DOMAIN contentCache

\* C23: a step that removes the entry of a path from the file cache removes
\* the path from the content cache too, or is the first half of a removal
\* that still holds the global lock and whose second half (the eviction's,
\* the file sweeper's) removes it.
C23_ContentPurgedWithEntry ==
    [][/\ \A q \in Paths :
            q \in DOMAIN fileCache /\ q \notin DOMAIN fileCache' =>
                q \notin DOMAIN contentCache' \/ fcLock' # Free
       /\ \A s \in Streams :
            st[s].pc = "evict_content" /\ st'[s].pc # "evict_content" =>
                st[s].lruPath \notin DOMAIN contentCache'
       /\ fs.pc = "content" /\ fs'.pc # "content" =>
                fs.path \notin DOMAIN contentCache']_vars

\* Stream t is in the middle of file I/O (stat, preload, seek, read) or of a
\* response write.
DoingIO(t) ==
    st[t].pc \in {"preload_read", "stat", "cache_write", "seek", "read", "write"}

\* Stream s is blocked on a lock that stream t holds: the per-path mutex of
\* the victim it wants to evict, or the content-cache mutex.
WaitsFor(s, t) ==
    \/ st[s].pc = "evict_lock" /\ muHolder[st[s].muToEvict] = t
    \/ st[s].pc \in {"preload", "sf_lookup", "evict_content"} /\ ccLock = t

\* C24: a stream of one path never waits for a lock that a stream of another
\* path holds while that one does file I/O or writes to its response.
C24_DifferentPathsParallel ==
    \A s \in Streams : \A t \in Streams \ {s} :
        (/\ st[s].pc # "idle" /\ st[t].pc # "idle"
         /\ st[s].path # st[t].path
         /\ DoingIO(t))
        => ~WaitsFor(s, t)

\* The thread that holds the lock thread a is about to acquire (Free when
\* the lock is free or a is not about to acquire one).
BlockedOn(a) ==
    IF a \in Streams
    THEN IF st[a].pc = "lock" THEN muHolder[st[a].mutex]
         ELSE IF st[a].pc = "evict_lock" THEN muHolder[st[a].muToEvict]
         ELSE IF st[a].pc \in {"get", "evict_check", "evict_nomutex", "insert"}
                 \/ (st[a].pc = "release" /\ st[a].isCached)
         THEN fcLock
         ELSE IF st[a].pc \in {"preload", "sf_lookup", "evict_content"} THEN ccLock
         ELSE Free
    ELSE IF a = FileSweeper
    THEN IF fs.pc = "lock" THEN muHolder[fs.mutex]
         ELSE IF fs.pc = "check" THEN fcLock
         ELSE IF fs.pc = "content" THEN ccLock
         ELSE Free
    ELSE IF cs.pc = "scan" /\ cs.todo # {} THEN fcLock ELSE Free

\* C25: there is no set of threads (streams, file sweeper, content sweeper)
\* each of which is blocked on a lock that a thread of the set holds.
C25_NoDeadlock ==
    \A D \in SUBSET (Streams \cup {FileSweeper, ContentSweeper}) :
        D # {} => \E a \in D : BlockedOn(a) \notin D

\* C26: when a stream enters its read loop (after the conditional seek), the
\* offset of its handle is the stream's current offset.
C26_FirstReadAtOffset ==
    [][\A s \in Streams :
          st[s].pc = "seek" /\ st'[s].pc = "read" =>
              hOff'[st'[s].file] = st'[s].currentOffset]_vars

\* C27: no stream holds the content-cache mutex while it reads from a file
\* or writes to its response.
C27_ContentLockMapOpsOnly ==
    \A s \in Streams : ccLock = s => ~DoingIO(s)

\* C28: the file cache holds at most one FileEntry per path: when a stream
\* that opened a missing path finds, under the global lock, that the path was
\* inserted meanwhile, the entry that is there stays (same handle), its
\* refCount grows by exactly one, the stream's own fresh handle is closed and
\* the stream goes on with the entry's handle; every cached path has one
\* entry whose handle no other path's entry shares.
C28_OneEntryPerPath ==
    /\ [](\A p, q \in DOMAIN fileCache :
             fileCache[p].file = fileCache[q].file => p = q)
    /\ [][\A s \in Streams :
            (/\ st[s].pc = "insert"
             /\ st'[s].pc = "stat"
             /\ st[s].path \in DOMAIN fileCache) =>
                /\ DOMAIN fileCache' = DOMAIN fileCache
                /\ fileCache'[st[s].path].file = fileCache[st[s].path].file
                /\ fileCache'[st[s].path].refCount =
                       fileCache[st[s].path].refCount + 1
                /\ \A q \in DOMAIN fileCache \ {st[s].path} :
                       fileCache'[q] = fileCache[q]
                /\ st[s].file # fileCache[st[s].path].file
                /\ hOpen[st[s].file] /\ ~hOpen'[st[s].file]
                /\ st'[s].file = fileCache[st[s].path].file
                /\ st'[s].isCached]_vars

\* C28's case: two streams share one entry after the second one lost the
\* race to insert it (it is past the insert with the entry's handle, and the
\* entry counts both).
C28_Witness ==
    \E s, t \in Streams :
        /\ s # t
        /\ st[s].pc = "stat" /\ st[s].isCached
        /\ st[t].pc \notin {"idle", "lock", "get"} /\ st[t].isCached
        /\ st[s].path = st[t].path
        /\ st[s].path \in DOMAIN fileCache
        /\ st[s].file = fileCache[st[s].path].file
        /\ st[t].file = st[s].file
        /\ fileCache[st[s].path].refCount = 2

\* C29: under fair scheduling of the file sweeper, an entry of the file cache
\* that is idle (refCount 0) and older than the TTL does not stay so for
\* ever: it is removed from the file cache, unless it is acquired again.
C29_IdleEntriesSwept ==
    \A q \in Paths :
        (q \in DOMAIN fileCache /\ Evictable(fileCache[q], now))
            ~> (q \notin DOMAIN fileCache \/ ~Evictable(fileCache[q], now))

\* A stream that works on a handle it opened outside the cache.
UsesUncached(s) ==
    /\ ~st[s].isCached
    /\ st[s].file # NoFile
    /\ st[s].pc \notin {"preload", "preload_read", "insert"}

\* C30: on a miss with the cache at capacity and no entry of refCount 0, the
\* acquire opens the file without inserting it: none of the stream's steps
\* from there to its exit changes the file-cache map (so no refCount) or the
\* content cache, the cached flag stays false, the handle is in no entry and
\* stays open while the stream uses it, and the stream closes it exactly once
\* on its way out.
C30_FullCacheOpensDirect ==
    /\ [](\A s \in Streams :
             UsesUncached(s) =>
                /\ hOpen[st[s].file]
                /\ st[s].closes = 0
                /\ \A q \in DOMAIN fileCache : fileCache[q].file # st[s].file)
    /\ [][\A s \in Streams :
            /\ (/\ st[s].pc = "get"
                /\ st'[s].pc # "get"
                /\ st[s].path \notin DOMAIN fileCache
                /\ Cardinality(DOMAIN fileCache) >= maxCachedFiles
                /\ \A q \in DOMAIN fileCache : fileCache[q].refCount # 0) =>
                   /\ st'[s].pc = "open_direct"
                   /\ fileCache' = fileCache /\ contentCache' = contentCache
                   /\ hOpen' = hOpen
            /\ ((st[s].pc = "open_direct" \/ UsesUncached(s)) /\ st'[s] # st[s]) =>
                   /\ fileCache' = fileCache /\ contentCache' = contentCache
                   /\ ~st'[s].isCached
                   /\ st[s].pc = "open_direct" /\ st'[s].pc = "stat" =>
                          ~hOpen[st'[s].file] /\ hOpen'[st'[s].file]
                   /\ st[s].pc = "release" =>
                          /\ st'[s].pc = "unlock"
                          /\ ~hOpen'[st[s].file]
                          /\ st'[s].closes = 1 /\ st'[s].decrements = 0]_vars

\* C30's case: a stream that was served through a handle of its own, opened
\* while the cache was full of entries in use, is on its way out: it closed
\* the handle once and its path never entered the cache.
C30_Witness ==
    \E s \in Streams :
        /\ st[s].pc = "unlock"
        /\ ~st[s].isCached
        /\ st[s].closes = 1 /\ st[s].decrements = 0
        /\ st[s].status = 200
        /\ st[s].path \notin DOMAIN fileCache
        /\ \E q \in DOMAIN fileCache : fileCache[q].refCount > 0

\* C31: the victim the capacity eviction picks is an entry of refCount 0
\* whose lastUsed is the least among the entries of refCount 0 that are in
\* the cache at the scan (an entry in use is never picked), and an entry
\* whose refCount returns to 0 is stamped with the time of that release.
C31_VictimIsIdleLru ==
    [][/\ \A s \in Streams :
            (st[s].pc = "get" /\ st'[s].pc = "evict_load") =>
                /\ st'[s].lruPath \in DOMAIN fileCache
                /\ fileCache[st'[s].lruPath].refCount = 0
                /\ \A r \in DOMAIN fileCache :
                       fileCache[r].refCount = 0 =>
                           fileCache[st'[s].lruPath].lastUsed <= fileCache[r].lastUsed
                /\ st'[s].entryToEvict = fileCache[st'[s].lruPath].file
       /\ \A q \in DOMAIN fileCache \cap DOMAIN fileCache' :
            (fileCache[q].refCount > 0 /\ fileCache'[q].refCount = 0) =>
                fileCache'[q].lastUsed = now]_vars

\* C31's case: the scan chose between two idle entries and took the older one.
C31_Witness ==
    \E s \in Streams :
        /\ st[s].pc = "evict_load"
        /\ \E r \in DOMAIN fileCache :
              /\ r # st[s].lruPath
              /\ fileCache[r].refCount = 0
              /\ st[s].lruPath \in DOMAIN fileCache
              /\ fileCache[st[s].lruPath].lastUsed < fileCache[r].lastUsed

\* C32: when the content sweeper removes the content of a path, at that
\* moment the path is not in the file cache or its entry has refCount 0, and
\* no stream that is in flight holds a handle of that path.
C32_ContentSweptOnlyIdle ==
    [][(cs.pc = "scan" /\ cs'.pc = "sleep") =>
          \A q \in DOMAIN contentCache \ DOMAIN contentCache' :
              /\ q \notin DOMAIN fileCache \/ fileCache[q].refCount = 0
              /\ \A s \in Streams : ~(st[s].path = q /\ st[s].file # NoFile)]_vars

\* C33: a stream whose start lies inside the cached head of its path (n
\* bytes) first writes exactly cache[start .. min(end, n-1)]; it then goes on
\* from the file at offset start plus the bytes emitted; when that slice
\* covers start..end it ends without a seek or a read of the file.
C33_CachedHeadFirst ==
    [][\A s \in Streams :
         LET p == st[s].path
             last == Min(st[s].end, Len(contentCache[p]) - 1)
         IN
         /\ (/\ st[s].pc = "sf_lookup" /\ st'[s].pc # "sf_lookup"
             /\ p \in DOMAIN contentCache
             /\ st[s].start < Len(contentCache[p])
             /\ st[s].start <= st[s].end) =>
                /\ st'[s].pc = "cache_write"
                /\ st[s].out = <<>> /\ st'[s].out = <<>>
         /\ (st[s].pc = "cache_write" /\ st'[s].pc # "cache_write"
                                     /\ ~st'[s].writeFailed) =>
                /\ st'[s].out = SubSeq(contentCache[p], st[s].start + 1, last + 1)
                /\ st'[s].currentOffset = st[s].start + Len(st'[s].out)
                /\ hOff' = hOff
                /\ st'[s].pc = IF last = st[s].end THEN "release" ELSE "seek"
         /\ (st[s].pc = "seek" /\ st'[s].pc = "read" /\ st[s].writtenBytes > 0) =>
                /\ hOff'[st[s].file] = st[s].start + Len(st[s].out)
                /\ st'[s].out = st[s].out]_vars

\* C33's case: the head came from the content cache and the stream is about
\* to read the rest from the file, at the offset where the head ended.
C33_Witness ==
    \E s \in Streams :
        /\ st[s].pc = "read"
        /\ st[s].path \in DOMAIN contentCache
        /\ st[s].writtenBytes = Len(contentCache[st[s].path]) - st[s].start
        /\ st[s].writtenBytes > 0
        /\ st[s].out = SubSeq(contentCache[st[s].path], st[s].start + 1,
                              Len(contentCache[st[s].path]))
        /\ hOff[st[s].file] = Len(contentCache[st[s].path])
        /\ st[s].bytesRemaining > 0

\* C34: in the file-read loop the response is flushed each time the
\* cumulative count of written bytes passes another multiple of
\* flushChunkSize, whether or not the count lands on the multiple, and once
\* more when the stream completes.
C34_FlushEveryQuantum ==
    [][\A s \in Streams :
         (st[s].pc = "write" /\ st'[s].pc \in {"read", "release"}
                            /\ ~st'[s].writeFailed) =>
             st'[s].flushes - st[s].flushes >=
                 (IF st'[s].writtenBytes \div flushChunkSize
                        > st[s].writtenBytes \div flushChunkSize THEN 1 ELSE 0)
                 + (IF st'[s].bytesRemaining = 0 THEN 1 ELSE 0)]_vars

\* C35: no file handle leaks: an open handle is held by a stream or is the
\* handle of an entry of the file cache (no handle was dropped open), and
\* every removal of an entry from the file cache closes the entry's handle.
C35_NoHandleLeak ==
    /\ [](/\ ~leaked
          /\ \A h \in Handles :
                hOpen[h] =>
                    \/ \E q \in DOMAIN fileCache : fileCache[q].file = h
                    \/ \E s \in Streams : st[s].file = h)
    /\ [][\A q \in DOMAIN fileCache \ DOMAIN fileCache' :
            ~hOpen'[fileCache[q].file]]_vars

\* C36: every path that is in the file cache has a mutex in the mutex map.
C36_CachedPathHasMutex == DOMAIN fileCache \subseteq DOMAIN fileMu

\* C37: once a call of InitializeSignature has returned nil (the last call
\* did: sync.Once ran and initError is nil), the instance is there, so
\* GetSignatureInstance returns it; in every order of calls with keys of the
\* right and of a wrong length.
C37_NilMeansInitialised ==
    (sig.onceDone /\ ~sig.initError) => sig.instance # <<>>

\* C38: a request the handler refuses gets one response: a status and an
\* error body are written once, and when the authentication failed that one
\* response is a 401.
C38_OneErrorResponse ==
    rq.pc = "done" =>
        /\ Len(rq.writes) = 1
        /\ rq.instance # <<>> => rq.writes = <<401>>

\* C39: parseRangeHeader returns a pair (start, end) for every Range header:
\* it never panics, whatever header the request carries.
C39_ParserNeverFails ==
    \A s \in Streams : st[s].fileSize >= 0 => ~st[s].parsed.panic

\* C40: when the open of the requested file fails the response is 404, and
\* neither that step nor the rest of the request changes the file cache (no
\* entry is inserted, every refCount stays) or the content cache; the stream
\* holds no handle and gives none back.
C40_OpenFailureIs404 ==
    /\ [](\A s \in Streams :
             (st[s].pc = "unlock" /\ st[s].fileSize < 0 /\ st[s].status # 500) =>
                 /\ st[s].status = 404
                 /\ st[s].file = NoFile /\ ~st[s].isCached
                 /\ st[s].decrements = 0 /\ st[s].closes = 0
                 /\ st[s].out = <<>>)
    /\ [][\A s \in Streams :
            (\/ st[s].pc \in {"open", "open_direct"} /\ st'[s].pc = "unlock"
             \/ st[s].pc = "unlock" /\ st[s].status = 404 /\ st'[s].pc = "idle") =>
                /\ fileCache' = fileCache
                /\ contentCache' = contentCache
                /\ hOpen' = hOpen]_vars

\* C40's case: a request whose open failed is on its way out with 404 while
\* the cache holds an entry another stream is using.
C40_Witness ==
    \E s \in Streams :
        /\ st[s].pc = "unlock" /\ st[s].status = 404
        /\ \E q \in DOMAIN fileCache : fileCache[q].refCount > 0

\* C11: Decrypt returns an error, and no payload, for a token one bit of
\* whose data field or signature field was flipped.
C11_TamperRejected ==
    sig.pc = "checked" => sig.output.err /\ sig.output.data = <<>>

\* Where the round trip does return the payload: itemId and mediaId are
\* valid UTF-8 and expireAt is at most 2^53 in magnitude.
RoundTripExact ==
    (/\ sig.pc = "verified"
     /\ ValidString(sig.input.itemId)
     /\ ValidString(sig.input.mediaId)
     /\ sig.input.expireAt <= ExactLimit
     /\ sig.input.expireAt >= 0 - ExactLimit)
    => RoundTrip(sig.input, sig.output)

\* A token with characters the encoder escapes and the largest exact
\* expiry time was verified.
RoundTripExactReached ==
    /\ sig.pc = "verified"
    /\ sig.input.itemId = <<34, 92>>
    /\ sig.input.mediaId = <<195, 169>>
    /\ sig.input.expireAt = ExactLimit
    /\ RoundTrip(sig.input, sig.output)

====
